---- MODULE Spec2Model ----
(***************************************************************************)
(* ISO 15765-2 (CAN-TP) transport layer of can_comm: the addressing model, *)
(* the PDU codec and the transport engine (TransportLayer) with its        *)
(* reception and transmission state machines, as a state machine.          *)
(*                                                                         *)
(* Conventions.  Python None is the integer None (-1) wherever the code    *)
(* keeps an optional integer; an optional object is a sequence of length 0 *)
(* or 1.  A byte is an integer 0..255, a bytearray a sequence of bytes.    *)
(* x & 0xF is x % 16, x >> 4 is x \div 16, 0x10 | n is 16 + n for n < 16.  *)
(* A Timer is [timeout, started, expired]: expired records that the        *)
(* monotonic clock has advanced by more than timeout since start().        *)
(* process() is modelled by its steps: one action per frame handed to      *)
(* _process_rx, one per call of _process_tx, with pc the position in it.   *)
(***************************************************************************)
EXTENDS Integers, Sequences, FiniteSets, TLC

VARIABLES tl, pc, inbox, wire, delivered, rcvd, step, env

vars == <<tl, pc, inbox, wire, delivered, rcvd, step, env>>

None == -1

(* ------------------------------------------------------------------ *)
(* Python sequence helpers                                            *)
(* ------------------------------------------------------------------ *)
Min(a, b) == IF a <= b THEN a ELSE b

Max(a, b) == IF a >= b THEN a ELSE b

\* s[:n]
SliceTo(s, n) ==
    LET k == IF n < 0 THEN Max(0, Len(s) + n) ELSE Min(n, Len(s))
    IN  SubSeq(s, 1, k)

\* s[n:]
SliceFrom(s, n) ==
    LET k == IF n < 0 THEN Max(0, Len(s) + n) ELSE Min(n, Len(s))
    IN  SubSeq(s, k + 1, Len(s))

\* [b] * n
Repeat(b, n) == [i \in 1..n |-> b]

(* ------------------------------------------------------------------ *)
(* utils.py                                                           *)
(* ------------------------------------------------------------------ *)
CAN_FD_DLC == <<0, 1, 2, 3, 4, 5, 6, 7, 8, 12, 16, 20, 24, 32, 48, 64>>

(* ------------------------------------------------------------------ *)
(* addresses.py                                                       *)
(* ------------------------------------------------------------------ *)
Normal_11bits == 0
Normal_29bits == 1
NormalFixed_29bits == 2
Extended_11bits == 3
Extended_29bits == 4
Mixed_11bits == 5
Mixed_29bits == 6

Physical == 0
Functional == 1

\* Address.__init__: the fields the constructor stores
Address(mode, txid, rxid, ta, sa, ae) ==
    [addressing_mode |-> mode, tx_id |-> txid, rx_id |-> rxid,
     target_address |-> ta, source_address |-> sa, address_extension |-> ae]

is_29bits(a) ==
    a.addressing_mode \in {Normal_29bits, NormalFixed_29bits, Extended_29bits, Mixed_29bits}

\* Address.validate: TRUE iff no ValueError is raised
validate_address(a) ==
    /\ a.addressing_mode \in 0..6
    /\ a.addressing_mode \in {Normal_11bits, Normal_29bits} =>
          a.rx_id # None /\ a.tx_id # None /\ a.rx_id # a.tx_id
    /\ a.addressing_mode = NormalFixed_29bits =>
          a.target_address # None /\ a.source_address # None
    /\ a.addressing_mode \in {Extended_11bits, Extended_29bits} =>
          a.target_address # None /\ a.rx_id # None /\ a.tx_id # None /\ a.rx_id # a.tx_id
    /\ a.addressing_mode = Mixed_11bits =>
          a.rx_id # None /\ a.tx_id # None /\ a.address_extension # None
    /\ a.addressing_mode = Mixed_29bits =>
          a.target_address # None /\ a.source_address # None /\ a.address_extension # None
    /\ a.target_address # None => a.target_address \in 0..255
    /\ a.source_address # None => a.source_address \in 0..255
    /\ a.address_extension # None => a.address_extension \in 0..255
    /\ a.tx_id # None => a.tx_id >= 0 /\ (~is_29bits(a) => a.tx_id <= 2047)
    /\ a.rx_id # None => a.rx_id >= 0 /\ (~is_29bits(a) => a.rx_id <= 2047)

\* Address._get_tx_arbitration_id; the or-ed fields occupy disjoint bits
get_tx_arbitration_id(a, address_type) ==
    IF a.addressing_mode \notin {NormalFixed_29bits, Mixed_29bits} THEN a.tx_id
    ELSE IF a.addressing_mode = NormalFixed_29bits
    THEN 402653184 + (IF address_type = Physical THEN 14286848 ELSE 14352384)
           + a.target_address * 256 + a.source_address
    ELSE 402653184 + (IF address_type = Physical THEN 13500416 ELSE 13434880)
           + a.target_address * 256 + a.source_address

\* Address.tx_payload_prefix
tx_payload_prefix(a) ==
    IF a.addressing_mode \in {Extended_11bits, Extended_29bits} THEN <<a.target_address>>
    ELSE IF a.addressing_mode \in {Mixed_11bits, Mixed_29bits} THEN <<a.address_extension>>
    ELSE <<>>

\* Address.rx_prefix_size
rx_prefix_size(a) ==
    IF a.addressing_mode \in {Extended_11bits, Extended_29bits, Mixed_11bits, Mixed_29bits}
    THEN 1 ELSE 0

\* Address.is_for_me: the acceptance predicate selected by the addressing mode
is_for_me(a, msg) ==
    /\ is_29bits(a) = msg.is_extended_id
    /\ CASE a.addressing_mode \in {Normal_11bits, Normal_29bits} ->
              msg.arbitration_id = a.rx_id
         [] a.addressing_mode \in {Extended_11bits, Extended_29bits} ->
              /\ Len(msg.data) > 0
              /\ msg.arbitration_id = a.rx_id
              /\ msg.data[1] = a.source_address
         [] a.addressing_mode = NormalFixed_29bits ->
              /\ (msg.arbitration_id \div 65536) % 256 \in {218, 219}
              /\ (msg.arbitration_id \div 256) % 256 = a.source_address
              /\ msg.arbitration_id % 256 = a.target_address
         [] a.addressing_mode = Mixed_11bits ->
              /\ Len(msg.data) > 0
              /\ msg.arbitration_id = a.rx_id
              /\ msg.data[1] = a.address_extension
         [] a.addressing_mode = Mixed_29bits ->
              /\ Len(msg.data) > 0
              /\ (msg.arbitration_id \div 65536) % 256 \in {205, 206}
              /\ (msg.arbitration_id \div 256) % 256 = a.source_address
              /\ msg.arbitration_id % 256 = a.target_address
              /\ msg.data[1] = a.address_extension

(* ------------------------------------------------------------------ *)
(* can_message.py                                                     *)
(* ------------------------------------------------------------------ *)
\* CanMessage(arbitration_id, dlc, data, is_extended_id): check=False, so no validation
CanMessage(arb, dlc, data, ext) ==
    [arbitration_id |-> arb, dlc |-> dlc, data |-> data, is_extended_id |-> ext]

(* ------------------------------------------------------------------ *)
(* can_tp_frames.py                                                   *)
(* ------------------------------------------------------------------ *)
SINGLE_FRAME == 0
FIRST_FRAME == 1
CONSECUTIVE_FRAME == 2
FLOW_CONTROL == 3

ContinueToSend == 0
Wait == 1
Overflow == 2

\* the attributes CanFrame.__init__ sets before parsing; ok = FALSE: ValueError raised
BlankFrame ==
    [ok |-> FALSE, type |-> None, length |-> None, data |-> <<>>, block_size |-> None,
     st_min |-> None, st_min_sec |-> None, seq_num |-> None, flow_status |-> None,
     escape_sequence |-> FALSE, can_dl |-> 0, rx_dl |-> 0]

\* a faulty variant of _single_frame, which SingleCodec_C16 must reject: in the
\* escape form the data is taken from the length byte on
single_frame_C16(f, d) ==
    LET data_len == Len(d)
        length_placeholder == d[1] % 16
    IN  IF length_placeholder # 0
        THEN IF length_placeholder > data_len - 1 THEN f
             ELSE [f EXCEPT !.ok = TRUE, !.length = length_placeholder,
                            !.data = SliceTo(SliceFrom(d, 1), length_placeholder)]
        ELSE IF data_len < 2 \/ d[2] = 0 \/ d[2] > data_len - 2
        THEN [f EXCEPT !.escape_sequence = TRUE]
        ELSE [f EXCEPT !.ok = TRUE, !.escape_sequence = TRUE, !.length = d[2],
                       !.data = SliceTo(SliceFrom(d, 1), d[2])]

\* CanFrame._single_frame on msg_data d
single_frame(f, d) ==
    LET data_len == Len(d)
        length_placeholder == d[1] % 16
    IN  IF length_placeholder # 0
        THEN IF length_placeholder > data_len - 1 THEN f
             ELSE [f EXCEPT !.ok = TRUE, !.length = length_placeholder,
                            !.data = SliceTo(SliceFrom(d, 1), length_placeholder)]
        ELSE IF data_len < 2 THEN f
        ELSE IF d[2] = 0 THEN [f EXCEPT !.escape_sequence = TRUE]
        ELSE IF d[2] > data_len - 2 THEN [f EXCEPT !.escape_sequence = TRUE]
        ELSE [f EXCEPT !.ok = TRUE, !.escape_sequence = TRUE, !.length = d[2],
                       !.data = SliceTo(SliceFrom(d, 2), d[2])]

\* CanFrame._first_frame on msg_data d
first_frame(f, d) ==
    LET data_len == Len(d) IN
    IF data_len < 2 THEN f
    ELSE LET length_placeholder == (d[1] % 16) * 256 + d[2] IN
         IF length_placeholder # 0
         THEN [f EXCEPT !.ok = TRUE, !.length = length_placeholder,
                        !.data = SliceTo(SliceFrom(d, 2), Min(length_placeholder, data_len - 2))]
         ELSE IF data_len < 6 THEN f
         ELSE LET length == d[3] * 16777216 + d[4] * 65536 + d[5] * 256 + d[6] IN
              [f EXCEPT !.ok = TRUE, !.escape_sequence = TRUE, !.length = length,
                        !.data = SliceTo(SliceFrom(d, 6), Min(length, data_len - 6))]

\* the STmin byte of a FlowControl in units of 100 microseconds; None: invalid
st_min_to_sec(st_min_temp) ==
    IF 0 <= st_min_temp /\ st_min_temp <= 127 THEN st_min_temp * 10
    ELSE IF 241 <= st_min_temp /\ st_min_temp <= 249 THEN st_min_temp - 240
    ELSE None

\* CanFrame._flow_control on msg_data d
flow_control(f, d) ==
    IF Len(d) < 3 THEN f
    ELSE IF d[1] % 16 >= 3 THEN [f EXCEPT !.flow_status = d[1] % 16]
    ELSE IF st_min_to_sec(d[3]) = None THEN f
    ELSE [f EXCEPT !.ok = TRUE, !.flow_status = d[1] % 16, !.block_size = d[2],
                   !.st_min = d[3], !.st_min_sec = st_min_to_sec(d[3])]

\* CanFrame.__init__(msg, start_of_data)
CanFrame(msg, start_of_data) ==
    IF Len(msg.data) < start_of_data THEN BlankFrame
    ELSE LET d  == SliceFrom(msg.data, start_of_data)
             f0 == [BlankFrame EXCEPT !.can_dl = Len(msg.data),
                                      !.rx_dl = Max(8, Len(msg.data))]
         IN  IF Len(d) = 0 THEN f0
             ELSE LET type_ == (d[1] \div 16) % 16
                      f1 == [f0 EXCEPT !.type = type_]
                  IN  CASE type_ > 3 -> f0
                        [] type_ = SINGLE_FRAME -> single_frame(f1, d)
                        [] type_ = FIRST_FRAME -> first_frame(f1, d)
                        [] type_ = CONSECUTIVE_FRAME ->
                             [f1 EXCEPT !.ok = TRUE, !.seq_num = d[1] % 16,
                                        !.data = SliceFrom(d, 1)]
                        [] type_ = FLOW_CONTROL -> flow_control(f1, d)

\* a faulty variant of craft_flow_control_data, which Scenario_C15 must reject:
\* block size and STmin change places
craft_flow_control_data_C15(flow_status, block_size, st_min) ==
    <<48 + flow_status, st_min % 256, block_size % 256>>

\* CanFrame.craft_flow_control_data
craft_flow_control_data(flow_status, block_size, st_min) ==
    <<48 + (flow_status % 16), block_size % 256, st_min % 256>>

(* ------------------------------------------------------------------ *)
(* timer.py                                                           *)
(* ------------------------------------------------------------------ *)
\* Timer(timeout): start_time is None
Timer(timeout) == [timeout |-> timeout, started |-> FALSE, expired |-> FALSE]

timer_set_timeout(t, timeout) == [t EXCEPT !.timeout = timeout]

\* a faulty variant of Timer.start, which StMinGate_C22 must reject: a timer
\* that has fired stays fired
timer_start_C22(t) == [t EXCEPT !.started = TRUE]

timer_start(t) == [t EXCEPT !.started = TRUE, !.expired = FALSE]

timer_stop(t) == [t EXCEPT !.started = FALSE, !.expired = FALSE]

\* Timer.is_timed_out: elapsed() > timeout or timeout == 0, FALSE when stopped
is_timed_out(t) == t.started /\ (t.expired \/ t.timeout = 0)

(* ------------------------------------------------------------------ *)
(* iso15765_2.py: Params                                              *)
(* ------------------------------------------------------------------ *)
\* Params.__init__: the defaults
DefaultParams ==
    [st_min |-> 0, block_size |-> 8, squash_st_min_requirement |-> FALSE,
     rx_flow_control_timeout |-> 1000, rx_consecutive_frame_timeout |-> 1000,
     tx_padding |-> None, wft_max |-> 0, tx_data_length |-> 8,
     tx_data_min_length |-> None, max_frame_size |-> 4095, can_fd |-> FALSE]

\* Params.validate: TRUE iff no ValueError is raised
validate_params(p) ==
    /\ p.rx_flow_control_timeout >= 0
    /\ p.rx_consecutive_frame_timeout >= 0
    /\ p.tx_padding # None => p.tx_padding \in 0..255
    /\ p.st_min \in 0..255
    /\ p.block_size \in 0..255
    /\ p.wft_max >= 0
    /\ p.tx_data_length \in {8, 12, 16, 20, 24, 32, 48, 64}
    /\ p.tx_data_min_length # None =>
          /\ p.tx_data_min_length \in {1, 2, 3, 4, 5, 6, 7, 8, 12, 16, 20, 24, 32, 48, 64}
          /\ p.tx_data_min_length <= p.tx_data_length
    /\ p.max_frame_size >= 0

(* ------------------------------------------------------------------ *)
(* iso15765_2.py: TransportLayer                                      *)
(* ------------------------------------------------------------------ *)
RxIDLE == 0
RxWAIT_CF == 1

TxIDLE == 0
TxWAIT_FC == 1
TxTRANSMIT_CF == 2

\* TransportLayer.__init__; errs is the list of errors handed to error_callback
\* by the handler step in progress, raised records that an exception has
\* propagated out of process()
TransportLayer(address, params) ==
    [address |-> address, params |-> params,
     remote_block_size |-> None,
     tx_queue |-> <<>>, rx_queue |-> <<>>,
     rx_state |-> RxIDLE, tx_state |-> TxIDLE,
     rx_block_counter |-> 0, last_seq_num |-> None,
     rx_frame_length |-> 0, tx_frame_length |-> 0,
     last_flow_control_frame |-> <<>>,
     tx_block_counter |-> 0, tx_seq_num |-> 0, wft_counter |-> 0,
     pending_flow_control_tx |-> FALSE, flow_control_status |-> None,
     rx_buffer |-> <<>>, tx_buffer |-> <<>>,
     timer_tx_st_min |-> Timer(0),
     timer_rx_fc |-> Timer(params.rx_flow_control_timeout),
     timer_rx_cf |-> Timer(params.rx_consecutive_frame_timeout),
     actual_rx_dl |-> None,
     errs |-> <<>>, raised |-> FALSE]

error_callback(e, error) == [e EXCEPT !.errs = Append(@, error)]

start_rx_fc_timer(e) ==
    [e EXCEPT !.timer_rx_fc = timer_start(Timer(e.params.rx_flow_control_timeout))]

start_rx_cf_timer(e) ==
    [e EXCEPT !.timer_rx_cf = timer_start(Timer(e.params.rx_consecutive_frame_timeout))]

\* a faulty variant of request_tx_flowcontrol, which NeverRaises_C6 must reject:
\* the status is not stored
request_tx_flowcontrol_C6(e, status) == [e EXCEPT !.pending_flow_control_tx = TRUE]

request_tx_flowcontrol(e, status) ==
    [e EXCEPT !.pending_flow_control_tx = TRUE, !.flow_control_status = status]

stop_sending_flow_control(e) ==
    [e EXCEPT !.pending_flow_control_tx = FALSE, !.last_flow_control_frame = <<>>]

\* a faulty variant of stop_sending, which TxIdleSingle_C19 must reject: the
\* STmin timer is left running
stop_sending_C19(e) ==
    [e EXCEPT !.tx_buffer = <<>>, !.tx_state = TxIDLE, !.tx_frame_length = 0,
              !.timer_rx_fc = timer_stop(@),
              !.remote_block_size = None, !.tx_block_counter = 0,
              !.tx_seq_num = 0, !.wft_counter = 0]

\* a faulty variant of stop_sending, which OverflowAbort_C10 must reject
stop_sending_C10(e) == [e EXCEPT !.tx_buffer = <<>>]

stop_sending(e) ==
    [e EXCEPT !.tx_buffer = <<>>, !.tx_state = TxIDLE, !.tx_frame_length = 0,
              !.timer_rx_fc = timer_stop(@), !.timer_tx_st_min = timer_stop(@),
              !.remote_block_size = None, !.tx_block_counter = 0,
              !.tx_seq_num = 0, !.wft_counter = 0]

stop_receiving(e) ==
    LET e1 == [e EXCEPT !.actual_rx_dl = None, !.rx_state = RxIDLE, !.rx_buffer = <<>>]
        e2 == stop_sending_flow_control(e1)
    IN  [e2 EXCEPT !.timer_rx_cf = timer_stop(@)]

\* TransportLayer.get_can_fd_size; None: ValueError raised
\* a faulty variant of get_can_fd_size, which FrameSize_C39 must reject: every
\* size above 8 is rounded to 64
get_can_fd_size_C39(size) == IF size <= 8 THEN size ELSE 64

get_can_fd_size(size) ==
    IF size <= 8 THEN size
    ELSE IF \E i \in 1..16 : CAN_FD_DLC[i] >= size
    THEN CAN_FD_DLC[CHOOSE i \in 1..16 :
             CAN_FD_DLC[i] >= size /\ \A j \in 1..(i - 1) : CAN_FD_DLC[j] < size]
    ELSE None

\* TransportLayer.get_dlc; None: ValueError raised
get_dlc(p, data, validate_tx) ==
    LET fd_len == Len(data) IN
    IF validate_tx /\ p.tx_data_length = 8 /\ (fd_len < 2 \/ fd_len > 8) THEN None
    ELSE IF fd_len <= 8 THEN fd_len
    ELSE IF \E i \in 1..16 : CAN_FD_DLC[i] >= fd_len
    THEN (CHOOSE i \in 1..16 :
             CAN_FD_DLC[i] >= fd_len /\ \A j \in 1..(i - 1) : CAN_FD_DLC[j] < fd_len) - 1
    ELSE None

\* a faulty variant of pad_message_data, which Padding_C17 must reject: the data
\* is not brought to a CAN FD size
pad_message_data_C17(p, msg_data) ==
    IF p.tx_padding # None /\ Len(msg_data) < 8
    THEN msg_data \o Repeat(p.tx_padding % 256, 8 - Len(msg_data))
    ELSE msg_data

\* TransportLayer.pad_message_data; <<None>>: get_can_fd_size raised
pad_message_data(p, msg_data) ==
    LET padding_byte == IF p.tx_padding = None THEN 204 ELSE p.tx_padding
        fd_size == get_can_fd_size(Len(msg_data))
        must_pad == IF p.tx_data_length = 8
                    THEN p.tx_data_min_length # None \/ p.tx_padding # None
                    ELSE p.tx_data_length > 8
        target_length ==
            IF p.tx_data_length = 8
            THEN (IF p.tx_data_min_length = None THEN 8 ELSE p.tx_data_min_length)
            ELSE (IF p.tx_data_min_length = None THEN fd_size
                  ELSE Max(p.tx_data_min_length, fd_size))
    IN  IF p.tx_data_length > 8 /\ fd_size = None THEN <<None>>
        ELSE IF must_pad /\ Len(msg_data) < target_length
        THEN msg_data \o Repeat(padding_byte % 256, target_length - Len(msg_data))
        ELSE msg_data

\* TransportLayer.make_tx_msg: a sequence holding the message, or <<>> when
\* pad_message_data or get_dlc raised
make_tx_msg(e, arbitration_id, data) ==
    LET padded == pad_message_data(e.params, data) IN
    IF padded = <<None>> THEN <<>>
    ELSE IF get_dlc(e.params, padded, TRUE) = None THEN <<>>
    ELSE <<CanMessage(arbitration_id, get_dlc(e.params, padded, TRUE), padded,
                      is_29bits(e.address))>>

\* TransportLayer.make_flow_control with block_size and st_min from the params
make_flow_control(e, flow_status) ==
    IF flow_status = None THEN <<>>
    ELSE make_tx_msg(e, get_tx_arbitration_id(e.address, Physical),
                     tx_payload_prefix(e.address)
                       \o craft_flow_control_data(flow_status, e.params.block_size,
                                                  e.params.st_min))

(* ---------------- reception: _process_rx ---------------------------- *)
\* a faulty variant of line 411, which WrongSeqTimer_C8 must reject
expected_seq_num_C8(last_seq_num) == (last_seq_num + 2) % 16

\* line 411: the sequence number the next ConsecutiveFrame must carry
expected_seq_num(last_seq_num) == (last_seq_num + 1) % 16

\* a faulty variant of line 428, which Block_C5 must reject
block_is_complete_C5(block_size, rx_block_counter) ==
    block_size > 0 /\ rx_block_counter % (block_size + 1) = 0

\* line 428: a FlowControl is due after this many ConsecutiveFrames
block_is_complete(block_size, rx_block_counter) ==
    block_size > 0 /\ rx_block_counter % block_size = 0

\* a faulty variant of start_reception_after_first_frame_if_valid, which
\* RestartTimer_C24 must reject: the bytes of the interrupted reception are kept
start_reception_after_first_frame_if_valid_C24(e, pdu) ==
    LET e1 == [e EXCEPT !.actual_rx_dl = pdu.rx_dl]
        e2 == IF pdu.length > e1.params.max_frame_size
              THEN [request_tx_flowcontrol(error_callback(e1, "FrameTooLongError"),
                                           Overflow)
                      EXCEPT !.rx_state = RxIDLE]
              ELSE request_tx_flowcontrol(
                       [e1 EXCEPT !.rx_state = RxWAIT_CF,
                                  !.rx_frame_length = pdu.length,
                                  !.rx_buffer = @ \o pdu.data],
                       ContinueToSend)
    IN  [start_rx_cf_timer(e2) EXCEPT !.last_seq_num = 0, !.rx_block_counter = 0]

start_reception_after_first_frame_if_valid(e, pdu) ==
    LET e0 == [e EXCEPT !.rx_buffer = <<>>] IN
    IF pdu.rx_dl \notin {8, 12, 16, 20, 24, 32, 48, 64}
    THEN stop_receiving(error_callback(e0, "InvalidCanFdFirstFrameRXDL"))
    ELSE LET e1 == [e0 EXCEPT !.actual_rx_dl = pdu.rx_dl]
             e2 == IF pdu.length > e1.params.max_frame_size
                   THEN [request_tx_flowcontrol(error_callback(e1, "FrameTooLongError"),
                                                Overflow)
                           EXCEPT !.rx_state = RxIDLE]
                   ELSE request_tx_flowcontrol(
                            [e1 EXCEPT !.rx_state = RxWAIT_CF,
                                       !.rx_frame_length = pdu.length,
                                       !.rx_buffer = @ \o pdu.data],
                            ContinueToSend)
         IN  [start_rx_cf_timer(e2) EXCEPT !.last_seq_num = 0, !.rx_block_counter = 0]

\* a faulty variant of rx_consecutive_frame, which Reassembly_C31 must reject:
\* the data of the last frame is not cut to the bytes still to receive
rx_consecutive_frame_C31(e, pdu) ==
    IF e.last_seq_num = None THEN [e EXCEPT !.raised = TRUE]
    ELSE IF expected_seq_num(e.last_seq_num) = pdu.seq_num
    THEN LET bytes_to_receive == e.rx_frame_length - Len(e.rx_buffer) IN
         IF pdu.rx_dl # e.actual_rx_dl /\ pdu.rx_dl < bytes_to_receive
         THEN error_callback(e, "ChangingInvalidRXDLError")
         ELSE LET e1 == [start_rx_cf_timer(e) EXCEPT
                            !.last_seq_num = pdu.seq_num,
                            !.rx_buffer = @ \o pdu.data]
              IN  IF Len(e1.rx_buffer) >= e1.rx_frame_length
                  THEN stop_receiving([e1 EXCEPT !.rx_queue = Append(@, e1.rx_buffer)])
                  ELSE LET e2 == [e1 EXCEPT !.rx_block_counter = @ + 1] IN
                       IF block_is_complete(e2.params.block_size, e2.rx_block_counter)
                       THEN [request_tx_flowcontrol(e2, ContinueToSend)
                               EXCEPT !.timer_rx_cf = timer_stop(@)]
                       ELSE e2
    ELSE error_callback(stop_receiving(e), "WrongSequenceNumberError")

\* a faulty variant of rx_consecutive_frame, which RxDlTimer_C26 must reject: a
\* frame with a changed RX_DL is dropped after its number has been recorded
rx_consecutive_frame_C26(e, pdu) ==
    IF e.last_seq_num = None THEN [e EXCEPT !.raised = TRUE]
    ELSE IF expected_seq_num(e.last_seq_num) = pdu.seq_num
    THEN LET bytes_to_receive == e.rx_frame_length - Len(e.rx_buffer) IN
         IF pdu.rx_dl # e.actual_rx_dl /\ pdu.rx_dl < bytes_to_receive
         THEN error_callback([e EXCEPT !.last_seq_num = pdu.seq_num],
                             "ChangingInvalidRXDLError")
         ELSE LET e1 == [start_rx_cf_timer(e) EXCEPT
                            !.last_seq_num = pdu.seq_num,
                            !.rx_buffer = @ \o SliceTo(pdu.data, bytes_to_receive)]
              IN  IF Len(e1.rx_buffer) >= e1.rx_frame_length
                  THEN stop_receiving([e1 EXCEPT !.rx_queue = Append(@, e1.rx_buffer)])
                  ELSE LET e2 == [e1 EXCEPT !.rx_block_counter = @ + 1] IN
                       IF block_is_complete(e2.params.block_size, e2.rx_block_counter)
                       THEN [request_tx_flowcontrol(e2, ContinueToSend)
                               EXCEPT !.timer_rx_cf = timer_stop(@)]
                       ELSE e2
    ELSE error_callback(stop_receiving(e), "WrongSequenceNumberError")

\* lines 410-435: a ConsecutiveFrame in RxState WAIT_CF
rx_consecutive_frame(e, pdu) ==
    IF e.last_seq_num = None THEN [e EXCEPT !.raised = TRUE]
    ELSE IF expected_seq_num(e.last_seq_num) = pdu.seq_num
    THEN LET bytes_to_receive == e.rx_frame_length - Len(e.rx_buffer) IN
         IF pdu.rx_dl # e.actual_rx_dl /\ pdu.rx_dl < bytes_to_receive
         THEN error_callback(e, "ChangingInvalidRXDLError")
         ELSE LET e1 == [start_rx_cf_timer(e) EXCEPT
                            !.last_seq_num = pdu.seq_num,
                            !.rx_buffer = @ \o SliceTo(pdu.data, bytes_to_receive)]
              IN  IF Len(e1.rx_buffer) >= e1.rx_frame_length
                  THEN stop_receiving([e1 EXCEPT !.rx_queue = Append(@, e1.rx_buffer)])
                  ELSE LET e2 == [e1 EXCEPT !.rx_block_counter = @ + 1] IN
                       IF block_is_complete(e2.params.block_size, e2.rx_block_counter)
                       THEN [request_tx_flowcontrol(e2, ContinueToSend)
                               EXCEPT !.timer_rx_cf = timer_stop(@)]
                       ELSE e2
    ELSE error_callback(stop_receiving(e), "WrongSequenceNumberError")

\* lines 383-435: the reception state machine on a Single, First or Consecutive frame
rx_state_machine(e, pdu) ==
    IF e.rx_state = RxIDLE
    THEN LET e0 == [e EXCEPT !.rx_frame_length = 0, !.timer_rx_cf = timer_stop(@)] IN
         CASE pdu.type = SINGLE_FRAME -> [e0 EXCEPT !.rx_queue = Append(@, pdu.data)]
           [] pdu.type = FIRST_FRAME -> start_reception_after_first_frame_if_valid(e0, pdu)
           [] OTHER -> error_callback(e0, "UnexpectedConsecutiveFrameError")
    ELSE CASE pdu.type = SINGLE_FRAME ->
                error_callback([e EXCEPT !.rx_queue = Append(@, pdu.data),
                                         !.rx_state = RxIDLE],
                               "ReceptionInterruptedWithSingleFrameError")
           [] pdu.type = FIRST_FRAME ->
                error_callback(start_reception_after_first_frame_if_valid(e, pdu),
                               "ReceptionInterruptedWithFirstFrameError")
           [] OTHER -> rx_consecutive_frame(e, pdu)

\* a faulty variant of process_rx, which TimeoutDecoded_C25 must reject: the CF
\* timer is not looked at before the frame is interpreted
process_rx_C25(e, msg) ==
    IF ~is_for_me(e.address, msg) THEN e
    ELSE LET pdu == CanFrame(msg, rx_prefix_size(e.address)) IN
         IF ~pdu.ok
         THEN stop_receiving(error_callback(e, "InvalidCanDataError"))
         ELSE IF pdu.type = FLOW_CONTROL
              THEN LET e2 == [e EXCEPT !.last_flow_control_frame = <<pdu>>] IN
                   IF e2.rx_state = RxWAIT_CF
                      /\ pdu.flow_status \in {Wait, ContinueToSend}
                   THEN start_rx_cf_timer(e2)
                   ELSE e2
              ELSE IF pdu.type = SINGLE_FRAME /\ pdu.can_dl > 8
                      /\ ~pdu.escape_sequence
              THEN error_callback(e, "MissingEscapeSequenceError")
              ELSE rx_state_machine(e, pdu)

\* TransportLayer._process_rx(msg)
process_rx(e, msg) ==
    IF ~is_for_me(e.address, msg) THEN e
    ELSE LET pdu == CanFrame(msg, rx_prefix_size(e.address)) IN
         IF ~pdu.ok
         THEN stop_receiving(error_callback(e, "InvalidCanDataError"))
         ELSE LET e1 == IF is_timed_out(e.timer_rx_cf)
                        THEN stop_receiving(
                                 error_callback(e, "ConsecutiveFrameTimeoutError"))
                        ELSE e
              IN  IF pdu.type = FLOW_CONTROL
                  THEN LET e2 == [e1 EXCEPT !.last_flow_control_frame = <<pdu>>] IN
                       IF e2.rx_state = RxWAIT_CF
                          /\ pdu.flow_status \in {Wait, ContinueToSend}
                       THEN start_rx_cf_timer(e2)
                       ELSE e2
                  ELSE IF pdu.type = SINGLE_FRAME /\ pdu.can_dl > 8
                          /\ ~pdu.escape_sequence
                  THEN error_callback(e1, "MissingEscapeSequenceError")
                  ELSE rx_state_machine(e1, pdu)

(* ---------------- transmission: _process_tx ------------------------- *)
\* The result of one call of _process_tx: the engine afterwards and the message
\* returned (a sequence of length 0 or 1).
TxResult(e, output_msg) == [e |-> e, out |-> output_msg]

TxRaised(e) == [e |-> [e EXCEPT !.raised = TRUE], out |-> <<>>]

\* line 510
size_on_first_byte(n) == n <= 7

\* lines 511-515: the payload goes out as one SingleFrame
fits_single_frame(e, n) ==
    n <= e.params.tx_data_length - (IF size_on_first_byte(n) THEN 1 ELSE 2)
           - Len(tx_payload_prefix(e.address))

\* a faulty variant of line 558, which SeqNumbers_C4 must reject
next_tx_seq_num_C4(tx_seq_num) == (tx_seq_num + 1) % 8

\* line 558
next_tx_seq_num(tx_seq_num) == (tx_seq_num + 1) % 16

\* lines 532-539: the header bytes of a FirstFrame for a message of n bytes
first_frame_header(n) ==
    IF n <= 4095 THEN <<16 + ((n \div 256) % 16), n % 256>>
    ELSE <<16, 0, (n \div 16777216) % 256, (n \div 65536) % 256, (n \div 256) % 256, n % 256>>

\* lines 509-545: the loop body for a popped object whose data is not empty
start_transmission(e, popped) ==
    LET e0     == [e EXCEPT !.tx_buffer = popped.data]
        n      == Len(popped.data)
        prefix == tx_payload_prefix(e.address)
    IN  IF fits_single_frame(e0, n)
        THEN LET msg_data == IF size_on_first_byte(n)
                             THEN prefix \o <<n>> \o e0.tx_buffer
                             ELSE prefix \o <<0, n>> \o e0.tx_buffer
                 m == make_tx_msg(e0, get_tx_arbitration_id(e.address,
                                          popped.target_address_type), msg_data)
             IN  IF m = <<>> \/ n > 255 THEN TxRaised(e0) ELSE TxResult(e0, m)
        ELSE LET e1 == [e0 EXCEPT !.tx_frame_length = n]
                 data_length == e.params.tx_data_length - Len(first_frame_header(n))
                                  - Len(prefix)
                 msg_data == prefix \o first_frame_header(n)
                               \o SliceTo(e1.tx_buffer, data_length)
                 m == make_tx_msg(e1, get_tx_arbitration_id(e.address, Physical), msg_data)
             IN  IF m = <<>> THEN TxRaised(e1)
                 ELSE TxResult(start_rx_fc_timer(
                                   [e1 EXCEPT !.tx_buffer = SliceFrom(@, data_length),
                                              !.tx_state = TxWAIT_FC,
                                              !.tx_seq_num = 1]), m)

\* lines 505-545: TxState IDLE; r is the result so far (output_msg is overwritten
\* by each later message of the queue)
RECURSIVE tx_idle(_)
tx_idle(r) ==
    IF r.e.tx_queue = <<>> \/ r.e.raised THEN r
    ELSE LET popped_object == Head(r.e.tx_queue)
             e1 == [r.e EXCEPT !.tx_queue = Tail(@)]
         IN  IF popped_object.data = <<>> THEN tx_idle(TxResult(e1, r.out))
             ELSE tx_idle(start_transmission(e1, popped_object))

\* a faulty variant of lines 550-566, which BlockSize_C21 must reject: one frame
\* more than the block size is let through
tx_transmit_cf_C21(e) ==
    LET prefix == tx_payload_prefix(e.address)
        emit == is_timed_out(e.timer_tx_st_min) \/ e.params.squash_st_min_requirement
        data_length == e.params.tx_data_length - 1 - Len(prefix)
        m == make_tx_msg(e, get_tx_arbitration_id(e.address, Physical),
                         prefix \o <<32 + e.tx_seq_num>>
                           \o SliceTo(e.tx_buffer, data_length))
        e1 == IF emit
              THEN [e EXCEPT !.tx_buffer = SliceFrom(@, data_length),
                             !.tx_seq_num = next_tx_seq_num(@),
                             !.timer_tx_st_min = timer_start(@),
                             !.tx_block_counter = @ + 1]
              ELSE e
    IN  IF emit /\ m = <<>> THEN TxRaised(e)
        ELSE IF e1.tx_buffer = <<>> THEN TxResult(stop_sending(e1), IF emit THEN m ELSE <<>>)
        ELSE IF e1.remote_block_size = None THEN TxRaised(e1)
        ELSE IF e1.remote_block_size # 0 /\ e1.tx_block_counter > e1.remote_block_size
        THEN TxResult(start_rx_fc_timer([e1 EXCEPT !.tx_state = TxWAIT_FC]),
                      IF emit THEN m ELSE <<>>)
        ELSE TxResult(e1, IF emit THEN m ELSE <<>>)

\* lines 550-566: TxState TRANSMIT_CF
tx_transmit_cf(e) ==
    LET prefix == tx_payload_prefix(e.address)
        emit == is_timed_out(e.timer_tx_st_min) \/ e.params.squash_st_min_requirement
        data_length == e.params.tx_data_length - 1 - Len(prefix)
        m == make_tx_msg(e, get_tx_arbitration_id(e.address, Physical),
                         prefix \o <<32 + e.tx_seq_num>>
                           \o SliceTo(e.tx_buffer, data_length))
        e1 == IF emit
              THEN [e EXCEPT !.tx_buffer = SliceFrom(@, data_length),
                             !.tx_seq_num = next_tx_seq_num(@),
                             !.timer_tx_st_min = timer_start(@),
                             !.tx_block_counter = @ + 1]
              ELSE e
    IN  IF emit /\ m = <<>> THEN TxRaised(e)
        ELSE IF e1.tx_buffer = <<>> THEN TxResult(stop_sending(e1), IF emit THEN m ELSE <<>>)
        ELSE IF e1.remote_block_size = None THEN TxRaised(e1)
        ELSE IF e1.remote_block_size # 0 /\ e1.tx_block_counter >= e1.remote_block_size
        THEN TxResult(start_rx_fc_timer([e1 EXCEPT !.tx_state = TxWAIT_FC]),
                      IF emit THEN m ELSE <<>>)
        ELSE TxResult(e1, IF emit THEN m ELSE <<>>)

\* a faulty variant of line 469, which WaitFramesQueue_C9 must reject
maximum_wait_reached_C9(wft_counter, wft_max) == wft_counter > wft_max

\* line 469: no further Wait frame is tolerated
maximum_wait_reached(wft_counter, wft_max) == wft_counter >= wft_max

\* a faulty variant of lines 461-492, which CtsGate_C20 must reject: TxState IDLE
\* is not looked at
tx_flow_control_C20(e, fc) ==
    IF fc.flow_status = Wait
    THEN IF e.params.wft_max = 0 THEN error_callback(e, "UnsuportedWaitFrameError")
         ELSE IF maximum_wait_reached(e.wft_counter, e.params.wft_max)
         THEN stop_sending(error_callback(e, "MaximumWaitFrameReachedError"))
         ELSE start_rx_fc_timer([e EXCEPT !.wft_counter = @ + 1, !.tx_state = TxWAIT_FC])
    ELSE IF fc.flow_status = ContinueToSend /\ ~is_timed_out(e.timer_rx_fc)
    THEN [e EXCEPT !.wft_counter = 0,
                   !.timer_rx_fc = timer_stop(@),
                   !.timer_tx_st_min = timer_start(timer_set_timeout(@, fc.st_min_sec)),
                   !.tx_block_counter = 0,
                   !.remote_block_size = fc.block_size,
                   !.tx_state = TxTRANSMIT_CF]
    ELSE e

\* a faulty variant of tx_flow_control, which Ignored_C27 must reject: the block
\* size of a FlowControl is recorded while TxState is IDLE
tx_flow_control_C27(e, fc) ==
    IF e.tx_state = TxIDLE
    THEN error_callback([e EXCEPT !.remote_block_size = fc.block_size],
                        "UnexpectedFlowControlError")
    ELSE IF fc.flow_status = Wait
    THEN IF e.params.wft_max = 0 THEN error_callback(e, "UnsuportedWaitFrameError")
         ELSE IF maximum_wait_reached(e.wft_counter, e.params.wft_max)
         THEN stop_sending(error_callback(e, "MaximumWaitFrameReachedError"))
         ELSE start_rx_fc_timer([e EXCEPT !.wft_counter = @ + 1, !.tx_state = TxWAIT_FC])
    ELSE IF fc.flow_status = ContinueToSend /\ ~is_timed_out(e.timer_rx_fc)
    THEN LET e1 == [e EXCEPT !.wft_counter = 0,
                             !.timer_rx_fc = timer_stop(@),
                             !.timer_tx_st_min = timer_set_timeout(@, fc.st_min_sec),
                             !.remote_block_size = fc.block_size]
             e2 == IF e1.tx_state = TxWAIT_FC
                   THEN [e1 EXCEPT !.tx_block_counter = 0,
                                   !.timer_tx_st_min = timer_start(@)]
                   ELSE e1
         IN  [e2 EXCEPT !.tx_state = TxTRANSMIT_CF]
    ELSE e

\* lines 461-492: a FlowControl with status Wait or ContinueToSend
tx_flow_control(e, fc) ==
    IF e.tx_state = TxIDLE THEN error_callback(e, "UnexpectedFlowControlError")
    ELSE IF fc.flow_status = Wait
    THEN IF e.params.wft_max = 0 THEN error_callback(e, "UnsuportedWaitFrameError")
         ELSE IF maximum_wait_reached(e.wft_counter, e.params.wft_max)
         THEN stop_sending(error_callback(e, "MaximumWaitFrameReachedError"))
         ELSE start_rx_fc_timer([e EXCEPT !.wft_counter = @ + 1, !.tx_state = TxWAIT_FC])
    ELSE IF fc.flow_status = ContinueToSend /\ ~is_timed_out(e.timer_rx_fc)
    THEN LET e1 == [e EXCEPT !.wft_counter = 0,
                             !.timer_rx_fc = timer_stop(@),
                             !.timer_tx_st_min = timer_set_timeout(@, fc.st_min_sec),
                             !.remote_block_size = fc.block_size]
             e2 == IF e1.tx_state = TxWAIT_FC
                   THEN [e1 EXCEPT !.tx_block_counter = 0,
                                   !.timer_tx_st_min = timer_start(@)]
                   ELSE e1
         IN  [e2 EXCEPT !.tx_state = TxTRANSMIT_CF]
    ELSE e

\* a faulty variant of tx_state_machine, which FcTimeoutCheck_C11 must reject: the
\* FC timer is not looked at
tx_state_machine_C11(e) ==
    LET e2 == IF e.tx_state # TxIDLE /\ e.tx_buffer = <<>> THEN stop_sending(e) ELSE e
    IN  CASE e2.tx_state = TxIDLE -> tx_idle(TxResult(e2, <<>>))
          [] e2.tx_state = TxWAIT_FC -> TxResult(e2, <<>>)
          [] OTHER -> tx_transmit_cf(e2)

\* lines 494-568: timeouts, then the transmission state machine
tx_state_machine(e) ==
    LET e1 == IF is_timed_out(e.timer_rx_fc)
              THEN stop_sending(error_callback(e, "FlowControlTimeoutError"))
              ELSE e
        e2 == IF e1.tx_state # TxIDLE /\ e1.tx_buffer = <<>> THEN stop_sending(e1) ELSE e1
    IN  CASE e2.tx_state = TxIDLE -> tx_idle(TxResult(e2, <<>>))
          [] e2.tx_state = TxWAIT_FC -> TxResult(e2, <<>>)
          [] OTHER -> tx_transmit_cf(e2)

\* a faulty variant of _process_tx, which PendingAtPump_C12 must reject: the
\* pending flag is not cleared
process_tx_C12(e) ==
    IF e.pending_flow_control_tx
    THEN LET m == make_flow_control(e, e.flow_control_status)
         IN  IF m = <<>> THEN TxRaised(e) ELSE TxResult(e, m)
    ELSE tx_state_machine([e EXCEPT !.last_flow_control_frame = <<>>])

\* TransportLayer._process_tx()
process_tx(e) ==
    IF e.pending_flow_control_tx
    THEN LET e0 == [e EXCEPT !.pending_flow_control_tx = FALSE]
             m  == make_flow_control(e0, e0.flow_control_status)
         IN  IF m = <<>> THEN TxRaised(e0) ELSE TxResult(e0, m)
    ELSE LET flow_control_frame == e.last_flow_control_frame
             e0 == [e EXCEPT !.last_flow_control_frame = <<>>]
         IN  IF flow_control_frame # <<>> /\ flow_control_frame[1].flow_status = Overflow
             THEN TxResult(error_callback(stop_sending(e0), "OverFlowError"), <<>>)
             ELSE IF flow_control_frame # <<>>
             THEN tx_state_machine(tx_flow_control(e0, flow_control_frame[1]))
             ELSE tx_state_machine(e0)

(* ---------------- public operations --------------------------------- *)
\* TransportLayer.send: TRUE iff no ValueError is raised (the queue is unbounded)
send_accepts(e, data, target_address_type) ==
    target_address_type = Functional =>
        Len(data) <= e.params.tx_data_length
                       - (IF e.params.tx_data_length = 8 THEN 1 ELSE 2)
                       - Len(tx_payload_prefix(e.address))

\* TransportLayer.send
send(e, data, target_address_type) ==
    IF send_accepts(e, data, target_address_type)
    THEN [e EXCEPT !.tx_queue =
              Append(@, [data |-> data, target_address_type |-> target_address_type])]
    ELSE e

\* TransportLayer.receive on a non-empty reception queue
receive(e) == [e EXCEPT !.rx_queue = Tail(@)]

\* a faulty variant of reset, which ResetKeeps_C14 must reject: the reception is
\* not stopped
reset_C14(e) == stop_sending([e EXCEPT !.tx_queue = <<>>, !.rx_queue = <<>>])

\* TransportLayer.reset
reset(e) == stop_receiving(stop_sending([e EXCEPT !.tx_queue = <<>>, !.rx_queue = <<>>]))

(* ------------------------------------------------------------------ *)
(* Bounds and inputs                                                  *)
(* ------------------------------------------------------------------ *)
\* calls of send() in Spec, SpecTx and SpecRT
MaxSends == 1
MaxSendsTx == 2
MaxSendsRT == 1
\* calls of send() that are accepted in SpecFn
MaxSendsFn == 2
\* frames the peer puts on the bus in Spec, SpecTx and SpecRx
MaxInject == 2
MaxInjectTx == 2
MaxInjectRx == 4
\* calls of reset() in SpecReset
MaxResets == 1
\* frames the peer puts on the bus in SpecFd
MaxInjectFd == 4
\* frames put on the bus in SpecAddr
MaxInjectAddr == 2
\* calls of send() in SpecDuplex
MaxSendsDx == 2
\* calls of send() in SpecLive
MaxSendsLive == 1
\* frames the peer puts on the bus in SpecRxLive before it falls silent
MaxInjectLive == 2
\* frames the peer puts on the bus in SpecFc
MaxInjectFc == 3
\* calls of send() in SpecEcho
MaxSendsEcho == 1
\* calls of send() and frames the peer puts on the bus in SpecDlc
MaxSendsDlc == 1
MaxInjectDlc == 2
\* calls of send() and frames the peer puts on the bus in SpecEq
MaxSendsEq == 2
MaxInjectEq == 2

\* a payload of n bytes first, first + 1, ...: every byte names its message and offset
Payload(first, n) == [i \in 1..n |-> first + i - 1]

\* the engine under test: scenario 1 of the specification, Normal_11bits 0x7E0 / 0x7E8
AddrA == Address(Normal_11bits, 2016, 2024, None, None, None)

ParamsA == [DefaultParams EXCEPT !.block_size = 2, !.wft_max = 1, !.max_frame_size = 30]

\* a frame sent by the peer of AddrA
PeerFrame(data) == CanMessage(2024, Len(data), data, FALSE)

FC_CTS == PeerFrame(<<48, 0, 0>>)                       \* ContinueToSend, BS 0, STmin 0
FC_CTS_BS1 == PeerFrame(<<48, 1, 10>>)                  \* ContinueToSend, BS 1, STmin 10 ms
FC_Wait == PeerFrame(<<49, 0, 0>>)
FC_Overflow == PeerFrame(<<50, 0, 0>>)
FF_22 == PeerFrame(<<16, 22>> \o Payload(101, 6))       \* FirstFrame of a 22-byte message
FF_100 == PeerFrame(<<16, 100>> \o Payload(201, 6))     \* FirstFrame of a 100-byte message
FF_9 == PeerFrame(<<16, 9>> \o Payload(51, 6))         \* FirstFrame of a 9-byte message
CF_1 == PeerFrame(<<33>> \o Payload(107, 7))
CF_2 == PeerFrame(<<34>> \o Payload(114, 7))
CF_3 == PeerFrame(<<35>> \o Payload(121, 2))
Single_2 == PeerFrame(<<2, 61, 62>>)                        \* SingleFrame of 2 bytes
BadType == PeerFrame(<<64>>)                            \* unknown frame type
FC_BadStMin == PeerFrame(<<48, 0, 128>>)                \* reserved STmin
Empty == PeerFrame(<<>>)
Foreign == CanMessage(2025, 3, <<2, 61, 62>>, FALSE)    \* another arbitration id

FlowControlFrames == {FC_CTS, FC_CTS_BS1, FC_Wait, FC_Overflow}

DataFrames == {FF_22, FF_100, CF_1, CF_2, CF_3, Single_2, BadType}

\* the frames of a peer that sends to a receiver: a second transfer can interrupt
\* the first
RxFrames == DataFrames \cup {FF_9}

PeerFrames == FlowControlFrames \cup DataFrames \cup {FC_BadStMin, Empty, Foreign}

Short == Payload(1, 3)              \* one SingleFrame
Long == Payload(11, 20)             \* FirstFrame and two ConsecutiveFrames
Wrap == Payload(101, 120)           \* FirstFrame and 17 ConsecutiveFrames

AppPayloads == {Short, Long}

(* ------------------------------------------------------------------ *)
(* State machine                                                      *)
(* ------------------------------------------------------------------ *)
Engines == DOMAIN tl

NoStep == [op |-> "init", who |-> "A", msg |-> <<>>, out |-> <<>>,
           rx_state |-> RxIDLE, tx_state |-> TxIDLE]

\* what the last handler step was: the operation, the engine, the frame read,
\* the frame handed to txfn, and the two FSM states before the step
StepOf(op, i, msg, out) ==
    [op |-> op, who |-> i, msg |-> msg, out |-> out,
     rx_state |-> tl[i].rx_state, tx_state |-> tl[i].tx_state]

InitWith(engines) ==
    /\ tl = engines
    /\ pc = [i \in DOMAIN engines |-> "idle"]
    /\ inbox = [i \in DOMAIN engines |-> <<>>]
    /\ wire = [i \in DOMAIN engines |-> <<>>]
    /\ delivered = [i \in DOMAIN engines |-> 0]
    /\ rcvd = [i \in DOMAIN engines |-> <<>>]
    /\ step = NoStep
    /\ env = [sent |-> <<>>, injects |-> 0, resets |-> 0]

Init == InitWith([i \in {"A"} |-> TransportLayer(AddrA, ParamsA)])

\* the application calls send(data, target_address_type)
Send(i, data, target_address_type, max) ==
    /\ pc[i] = "idle"
    /\ Len(env.sent) < max
    /\ send_accepts(tl[i], data, target_address_type)
    /\ tl' = [tl EXCEPT ![i] = send(@, data, target_address_type)]
    /\ env' = [env EXCEPT !.sent = Append(@, data)]
    /\ step' = StepOf("send", i, <<>>, <<>>)
    /\ UNCHANGED <<pc, inbox, wire, delivered, rcvd>>

\* the application calls send(data, target_address_type), which raises ValueError
SendRejected(i, data, target_address_type) ==
    /\ pc[i] = "idle"
    /\ ~send_accepts(tl[i], data, target_address_type)
    /\ tl' = [tl EXCEPT ![i] = send(@, data, target_address_type)]
    /\ step' = StepOf("send_error", i, <<>>, <<>>)
    /\ UNCHANGED <<pc, inbox, wire, delivered, rcvd, env>>

\* the application calls receive() and gets a payload
Receive(i) ==
    /\ pc[i] = "idle"
    /\ tl[i].rx_queue # <<>>
    /\ rcvd' = [rcvd EXCEPT ![i] = Append(@, Head(tl[i].rx_queue))]
    /\ tl' = [tl EXCEPT ![i] = receive(@)]
    /\ step' = StepOf("receive", i, <<>>, <<>>)
    /\ UNCHANGED <<pc, inbox, wire, delivered, env>>

\* process() is called; the engines are driven from one thread
ProcessStart(i) ==
    /\ \A j \in Engines : pc[j] = "idle"
    /\ pc' = [pc EXCEPT ![i] = "rx"]
    /\ step' = StepOf("process", i, <<>>, <<>>)
    /\ UNCHANGED <<tl, inbox, wire, delivered, rcvd, env>>

\* process(): rxfn returned a frame, which goes through _process_rx
ProcessRx(i) ==
    /\ pc[i] = "rx"
    /\ inbox[i] # <<>>
    /\ LET e1 == process_rx([tl[i] EXCEPT !.errs = <<>>], Head(inbox[i])) IN
         /\ tl' = [tl EXCEPT ![i] = e1]
         /\ pc' = [pc EXCEPT ![i] = IF e1.raised THEN "idle" ELSE "rx"]
    /\ inbox' = [inbox EXCEPT ![i] = Tail(@)]
    /\ step' = StepOf("rx", i, <<Head(inbox[i])>>, <<>>)
    /\ UNCHANGED <<wire, delivered, rcvd, env>>

\* process(): rxfn has returned None; _process_tx is called, and called again
\* as long as it returns a message, which goes to txfn
ProcessTx(i) ==
    /\ pc[i] = "tx" \/ (pc[i] = "rx" /\ inbox[i] = <<>>)
    /\ LET r == process_tx([tl[i] EXCEPT !.errs = <<>>]) IN
         /\ tl' = [tl EXCEPT ![i] = r.e]
         /\ wire' = [wire EXCEPT ![i] = @ \o r.out]
         /\ pc' = [pc EXCEPT ![i] = IF r.out = <<>> THEN "idle" ELSE "tx"]
         /\ step' = StepOf("tx", i, <<>>, r.out)
    /\ UNCHANGED <<inbox, delivered, rcvd, env>>

\* The monotonic clock passes the timeout of a running timer.  The clock is read
\* only by is_timed_out, in _process_rx (CF timer) and _process_tx (FC and STmin
\* timers), so a timer expires here only where the next step reads it.
ElapseCF(i) ==
    /\ pc[i] = "rx" /\ inbox[i] # <<>>
    /\ tl[i].timer_rx_cf.started /\ ~tl[i].timer_rx_cf.expired
    /\ tl[i].timer_rx_cf.timeout > 0
    /\ tl' = [tl EXCEPT ![i].timer_rx_cf.expired = TRUE]
    /\ UNCHANGED <<pc, inbox, wire, delivered, rcvd, step, env>>

ElapseFC(i) ==
    /\ pc[i] = "tx" \/ (pc[i] = "rx" /\ inbox[i] = <<>>)
    /\ tl[i].timer_rx_fc.started /\ ~tl[i].timer_rx_fc.expired
    /\ tl[i].timer_rx_fc.timeout > 0
    /\ tl' = [tl EXCEPT ![i].timer_rx_fc.expired = TRUE]
    /\ UNCHANGED <<pc, inbox, wire, delivered, rcvd, step, env>>

ElapseSTmin(i) ==
    /\ pc[i] = "tx" \/ (pc[i] = "rx" /\ inbox[i] = <<>>)
    /\ tl[i].timer_tx_st_min.started /\ ~tl[i].timer_tx_st_min.expired
    /\ tl[i].timer_tx_st_min.timeout > 0
    /\ tl' = [tl EXCEPT ![i].timer_tx_st_min.expired = TRUE]
    /\ UNCHANGED <<pc, inbox, wire, delivered, rcvd, step, env>>

\* the bus driver has a frame from the peer for rxfn
Inject(i, f, max) ==
    /\ pc[i] = "idle"
    /\ env.injects < max
    /\ inbox' = [inbox EXCEPT ![i] = Append(@, f)]
    /\ env' = [env EXCEPT !.injects = @ + 1]
    /\ UNCHANGED <<tl, pc, wire, delivered, rcvd, step>>

\* Spec: one engine, sending and receiving, against an arbitrary peer
Next ==
    \/ \E d \in AppPayloads : Send("A", d, Physical, MaxSends)
    \/ Receive("A")
    \/ ProcessStart("A")
    \/ ProcessRx("A")
    \/ ProcessTx("A")
    \/ ElapseCF("A")
    \/ ElapseFC("A")
    \/ ElapseSTmin("A")
    \/ \E f \in PeerFrames : Inject("A", f, MaxInject)

Spec == Init /\ [][Next]_vars

\* SpecTx: the engine as a sender, against a peer that answers with any FlowControl
NextTx ==
    \/ \E d \in AppPayloads \cup {Wrap} : Send("A", d, Physical, MaxSendsTx)
    \/ ProcessStart("A")
    \/ ProcessRx("A")
    \/ ProcessTx("A")
    \/ ElapseFC("A")
    \/ ElapseSTmin("A")
    \/ \E f \in FlowControlFrames : Inject("A", f, MaxInjectTx)

SpecTx == Init /\ [][NextTx]_vars

\* SpecRx: the engine as a receiver, against a peer that sends any data frame
NextRx ==
    \/ Receive("A")
    \/ ProcessStart("A")
    \/ ProcessRx("A")
    \/ ProcessTx("A")
    \/ ElapseCF("A")
    \/ \E f \in RxFrames : Inject("A", f, MaxInjectRx)

SpecRx == Init /\ [][NextRx]_vars

(* ---------------- two engines on one bus --------------------------- *)
\* the address of the other end of a link
Complement(a) ==
    Address(a.addressing_mode, a.rx_id, a.tx_id, a.source_address, a.target_address,
            a.address_extension)

\* the links of SpecRT: classic CAN with Normal_11bits, CAN FD with Extended_11bits,
\* padded classic CAN with Mixed_29bits, CAN FD with NormalFixed_29bits
RTConfigs ==
    << [address |-> AddrA,
        params  |-> [DefaultParams EXCEPT !.block_size = 4]],
       [address |-> Address(Extended_11bits, 256, 512, 85, 170, None),
        params  |-> [DefaultParams EXCEPT !.tx_data_length = 12, !.block_size = 2,
                                          !.can_fd = TRUE]],
       [address |-> Address(Mixed_29bits, None, None, 16, 32, 153),
        params  |-> [DefaultParams EXCEPT !.tx_padding = 170, !.block_size = 0,
                                          !.st_min = 5]],
       [address |-> Address(NormalFixed_29bits, None, None, 16, 32, None),
        params  |-> [DefaultParams EXCEPT !.tx_data_length = 16,
                                          !.tx_data_min_length = 12, !.block_size = 1,
                                          !.can_fd = TRUE]] >>

RTPayloads == {<<>>, Payload(1, 3), Payload(1, 7), Payload(1, 20), Wrap}

InitRT ==
    \E c \in 1..Len(RTConfigs) :
        /\ validate_address(RTConfigs[c].address)
        /\ validate_params(RTConfigs[c].params)
        /\ InitWith([i \in {"A", "B"} |->
                       IF i = "A"
                       THEN TransportLayer(RTConfigs[c].address, RTConfigs[c].params)
                       ELSE TransportLayer(Complement(RTConfigs[c].address),
                                           RTConfigs[c].params)])

\* the bus carries the next frame written by txfn of i to rxfn of j, in order
Deliver(i, j) ==
    /\ \A k \in Engines : pc[k] = "idle"
    /\ delivered[i] < Len(wire[i])
    /\ inbox' = [inbox EXCEPT ![j] = Append(@, wire[i][delivered[i] + 1])]
    /\ delivered' = [delivered EXCEPT ![i] = @ + 1]
    /\ UNCHANGED <<tl, pc, wire, rcvd, step, env>>

\* SpecRT: A sends to B over a lossless bus; no FC or CF timeout expires
NextRT ==
    \/ \E d \in RTPayloads : Send("A", d, Physical, MaxSendsRT)
    \/ Receive("B")
    \/ \E i \in Engines : ProcessStart(i)
    \/ \E i \in Engines : ProcessRx(i)
    \/ \E i \in Engines : ProcessTx(i)
    \/ \E i \in Engines : ElapseSTmin(i)
    \/ Deliver("A", "B")
    \/ Deliver("B", "A")

SpecRT == InitRT /\ [][NextRT]_vars

(* ---------------- reset() ------------------------------------------- *)
\* the application calls reset(), between two calls of process()
Reset(i) ==
    /\ pc[i] = "idle"
    /\ env.resets < MaxResets
    /\ tl' = [tl EXCEPT ![i] = reset(@)]
    /\ env' = [env EXCEPT !.resets = @ + 1]
    /\ step' = StepOf("reset", i, <<>>, <<>>)
    /\ UNCHANGED <<pc, inbox, wire, delivered, rcvd>>

\* the frames of the peer in SpecReset
ResetFrames == {FF_22, CF_1, Single_2, FC_CTS, FC_CTS_BS1, FC_Wait}

\* SpecReset: one engine, sending and receiving, with calls of reset()
NextReset ==
    \/ \E d \in AppPayloads : Send("A", d, Physical, MaxSends)
    \/ ProcessStart("A")
    \/ ProcessRx("A")
    \/ ProcessTx("A")
    \/ ElapseCF("A")
    \/ ElapseFC("A")
    \/ ElapseSTmin("A")
    \/ \E f \in ResetFrames : Inject("A", f, MaxInject)
    \/ Reset("A")

SpecReset == Init /\ [][NextReset]_vars

(* ---------------- functional addressing ---------------------------- *)
\* payloads around the single-frame capacity of the four links of RTConfigs
FnPayloads ==
    {<<>>, Payload(1, 3), Payload(1, 6), Payload(1, 7), Payload(1, 9), Payload(1, 10),
     Payload(1, 14), Payload(1, 15)}

InitFn ==
    \E c \in 1..Len(RTConfigs) :
        /\ validate_address(RTConfigs[c].address)
        /\ validate_params(RTConfigs[c].params)
        /\ InitWith([i \in {"A"} |->
                       TransportLayer(RTConfigs[c].address, RTConfigs[c].params)])

\* SpecFn: the application sends with functional and with physical addressing
NextFn ==
    \/ \E d \in FnPayloads : Send("A", d, Functional, MaxSendsFn)
    \/ \E d \in FnPayloads : SendRejected("A", d, Functional)
    \/ Send("A", Long, Physical, MaxSendsFn)
    \/ ProcessStart("A")
    \/ ProcessTx("A")

SpecFn == InitFn /\ [][NextFn]_vars

(* ---------------- a receiver on CAN FD -------------------------------- *)
\* a receiver that expects 12-byte frames
ParamsFd == [DefaultParams EXCEPT !.tx_data_length = 12, !.block_size = 2,
                                  !.can_fd = TRUE]

FdFF_28 == PeerFrame(<<16, 28>> \o Payload(101, 10))     \* 12 bytes: RX_DL 12
FdCF_1 == PeerFrame(<<33>> \o Payload(111, 11))          \* 12 bytes
FdCF_2 == PeerFrame(<<34>> \o Payload(122, 7) \o Repeat(204, 4))
NarrowCF_1 == PeerFrame(<<33>> \o Payload(111, 7))       \* 8 bytes: RX_DL 8
NarrowCF_2 == PeerFrame(<<34>> \o Payload(122, 7))

FdFrames == {FdFF_28, FdCF_1, FdCF_2, NarrowCF_1, NarrowCF_2}

InitFd == InitWith([i \in {"A"} |-> TransportLayer(AddrA, ParamsFd)])

\* SpecFd: the engine as a receiver, against a peer that changes the frame size
NextFd ==
    \/ Receive("A")
    \/ ProcessStart("A")
    \/ ProcessRx("A")
    \/ ProcessTx("A")
    \/ ElapseCF("A")
    \/ \E f \in FdFrames : Inject("A", f, MaxInjectFd)

SpecFd == InitFd /\ [][NextFd]_vars

(* ---------------- every address that can be constructed --------------- *)
\* Address(...) with each identifier given or left out
AddressSpace ==
    { Address(mode, txid, rxid, ta, sa, ae) :
        mode \in 0..6, txid \in {None, 256}, rxid \in {None, 512},
        ta \in {None, 85}, sa \in {None, 170}, ae \in {None, 153} }

\* the arbitration id on which the peer of a sends to a
PeerArbitrationId(a) ==
    IF a.addressing_mode \in {NormalFixed_29bits, Mixed_29bits}
    THEN get_tx_arbitration_id(Complement(a), Physical)
    ELSE a.rx_id

\* a SingleFrame on that id, bare or behind one of the address bytes
AddrFrames(a) ==
    { CanMessage(PeerArbitrationId(a), Len(prefix) + 3, prefix \o <<2, 61, 62>>,
                 is_29bits(a)) :
        prefix \in {<<>>, <<85>>, <<170>>, <<153>>} }

\* the constructor of Address has returned, and an engine is built on the address
InitAddr ==
    \E a \in AddressSpace :
        /\ validate_address(a)
        /\ InitWith([i \in {"A"} |-> TransportLayer(a, DefaultParams)])

\* SpecAddr: an engine on any address that can be constructed, receiving
NextAddr ==
    \/ Receive("A")
    \/ ProcessStart("A")
    \/ ProcessRx("A")
    \/ ProcessTx("A")
    \/ \E f \in AddrFrames(tl["A"].address) : Inject("A", f, MaxInjectAddr)

SpecAddr == InitAddr /\ [][NextAddr]_vars

(* ---------------- two engines that send to each other ----------------- *)
\* the 20-byte message of each engine
DuplexPayload(i) == IF i = "A" THEN Long ELSE Payload(41, 20)

InitDuplex ==
    InitWith([i \in {"A", "B"} |->
                IF i = "A" THEN TransportLayer(AddrA, DefaultParams)
                ELSE TransportLayer(Complement(AddrA), DefaultParams)])

\* the application of i sends its message, once
SendDuplex(i) ==
    /\ \A k \in 1..Len(env.sent) : env.sent[k] # DuplexPayload(i)
    /\ Send(i, DuplexPayload(i), Physical, MaxSendsDx)

\* SpecDuplex: A and B each send a multi-frame message to the other over a
\* lossless in-order bus; no timer expires
NextDuplex ==
    \/ \E i \in Engines : SendDuplex(i)
    \/ \E i \in Engines : Receive(i)
    \/ \E i \in Engines : ProcessStart(i)
    \/ \E i \in Engines : ProcessRx(i)
    \/ \E i \in Engines : ProcessTx(i)
    \/ Deliver("A", "B")
    \/ Deliver("B", "A")

SpecDuplex == InitDuplex /\ [][NextDuplex]_vars

(* ---------------- a sender under fair scheduling --------------------- *)
\* the peer of SpecLive answers with FlowControl frames for as long as it likes:
\* rxfn has one more frame whenever the engine has drained the last one
Arrive(i, f) ==
    /\ pc[i] = "idle"
    /\ inbox[i] = <<>>
    /\ inbox' = [inbox EXCEPT ![i] = <<f>>]
    /\ UNCHANGED <<tl, pc, wire, delivered, rcvd, step, env>>

\* time passes: a running timer reaches its timeout, whatever the engine is doing
TickFC(i) ==
    /\ tl[i].timer_rx_fc.started /\ ~tl[i].timer_rx_fc.expired
    /\ tl[i].timer_rx_fc.timeout > 0
    /\ tl' = [tl EXCEPT ![i].timer_rx_fc.expired = TRUE]
    /\ UNCHANGED <<pc, inbox, wire, delivered, rcvd, step, env>>

TickSTmin(i) ==
    /\ tl[i].timer_tx_st_min.started /\ ~tl[i].timer_tx_st_min.expired
    /\ tl[i].timer_tx_st_min.timeout > 0
    /\ tl' = [tl EXCEPT ![i].timer_tx_st_min.expired = TRUE]
    /\ UNCHANGED <<pc, inbox, wire, delivered, rcvd, step, env>>

\* wft_max = 0 (Wait frames unsupported) and wft_max = 1
InitLive ==
    \E w \in {0, 1} :
        InitWith([i \in {"A"} |-> TransportLayer(AddrA, [ParamsA EXCEPT !.wft_max = w])])

NextLive ==
    \/ Send("A", Long, Physical, MaxSendsLive)
    \/ ProcessStart("A")
    \/ ProcessRx("A")
    \/ ProcessTx("A")
    \/ TickFC("A")
    \/ TickSTmin("A")
    \/ \E f \in {FC_CTS_BS1, FC_Wait, FC_Overflow} : Arrive("A", f)

\* process() is called again and again and runs to its end; a timer that keeps
\* running reaches its timeout
SpecLive ==
    /\ InitLive
    /\ [][NextLive]_vars
    /\ WF_vars(ProcessStart("A"))
    /\ WF_vars(ProcessRx("A"))
    /\ WF_vars(ProcessTx("A"))
    /\ WF_vars(TickFC("A"))
    /\ WF_vars(TickSTmin("A"))

(* ---------------- a receiver under fair scheduling ------------------- *)
TickCF(i) ==
    /\ tl[i].timer_rx_cf.started /\ ~tl[i].timer_rx_cf.expired
    /\ tl[i].timer_rx_cf.timeout > 0
    /\ tl' = [tl EXCEPT ![i].timer_rx_cf.expired = TRUE]
    /\ UNCHANGED <<pc, inbox, wire, delivered, rcvd, step, env>>

\* the peer sends a few data frames and then falls silent
NextRxLive ==
    \/ Receive("A")
    \/ ProcessStart("A")
    \/ ProcessRx("A")
    \/ ProcessTx("A")
    \/ TickCF("A")
    \/ \E f \in RxFrames : Inject("A", f, MaxInjectLive)

\* process() is called again and again and runs to its end; a running
\* ConsecutiveFrame timer reaches its timeout
SpecRxLive ==
    /\ Init
    /\ [][NextRxLive]_vars
    /\ WF_vars(ProcessStart("A"))
    /\ WF_vars(ProcessRx("A"))
    /\ WF_vars(ProcessTx("A"))
    /\ WF_vars(TickCF("A"))

(* ---------------- a receiver with any legal st_min and block_size ---- *)
\* the engine is built with the parameter sets that Params.validate lets
\* through; st_min is tried at the ends and in the middle of every range of the
\* STmin byte and out of a byte, block_size at the ends of a byte and out of it
InitFc ==
    \E st \in {-1, 0, 10, 127, 128, 240, 241, 249, 250, 255, 256},
       bs \in {-1, 0, 2, 255, 256} :
        LET p == [ParamsA EXCEPT !.st_min = st, !.block_size = bs] IN
          /\ validate_params(p)
          /\ InitWith([i \in {"A"} |-> TransportLayer(AddrA, p)])

NextFc ==
    \/ Receive("A")
    \/ ProcessStart("A")
    \/ ProcessRx("A")
    \/ ProcessTx("A")
    \/ \E f \in {FF_9, FF_22, FF_100, CF_1, CF_2} : Inject("A", f, MaxInjectFc)

SpecFc == InitFc /\ [][NextFc]_vars

(* ---------------- an engine that hears its own frames --------------- *)
\* the arguments of Address(...), with identifiers and addresses that may coincide
InitEcho ==
    \E mode \in 0..6, txid \in {None, 256, 512}, rxid \in {None, 512},
       ta \in {None, 85}, sa \in {None, 85, 170}, ae \in {None, 153} :
      LET a == Address(mode, txid, rxid, ta, sa, ae) IN
        /\ validate_address(a)
        /\ InitWith([i \in {"A"} |-> TransportLayer(a, DefaultParams)])

\* SpecEcho: the bus driver hands every frame written by txfn back to rxfn
NextEcho ==
    \/ \E t \in {Physical, Functional} : Send("A", Short, t, MaxSendsEcho)
    \/ Send("A", Long, Physical, MaxSendsEcho)
    \/ Receive("A")
    \/ ProcessStart("A")
    \/ ProcessRx("A")
    \/ ProcessTx("A")
    \/ Deliver("A", "A")

SpecEcho == InitEcho /\ [][NextEcho]_vars

(* ---------------- frame sizes over the legal parameter sets ---------- *)
\* the links of SpecDlc: no prefix and one prefix byte, classic CAN and CAN FD,
\* every kind of padding that Params.validate accepts
InitDlc ==
    \E a \in {AddrA, Address(Extended_11bits, 256, 512, 85, 170, None)},
       l \in {8, 12, 13}, m \in {None, 1, 8, 12}, pad \in {None, 170} :
      LET p == [DefaultParams EXCEPT !.tx_data_length = l, !.tx_data_min_length = m,
                                     !.tx_padding = pad, !.can_fd = (l > 8)] IN
        /\ validate_address(a)
        /\ validate_params(p)
        /\ InitWith([i \in {"A"} |-> TransportLayer(a, p)])

\* SpecDlc: payloads of 1, 7, 14 and 22 bytes give the shortest and the longest
\* frame of every link; the peer sends a ContinueToSend or a FirstFrame of 9 bytes
NextDlc ==
    \/ \E n \in {1, 7, 14, 22}, t \in {Physical, Functional} :
           Send("A", Payload(1, n), t, MaxSendsDlc)
    \/ ProcessStart("A")
    \/ ProcessRx("A")
    \/ ProcessTx("A")
    \/ \E data \in {<<48, 0, 0>>, <<16, 9>> \o Payload(51, 6)} :
           LET a == tl["A"].address
               prefix == tx_payload_prefix(Complement(a))
           IN  Inject("A", CanMessage(a.rx_id, Len(data) + Len(prefix), prefix \o data,
                                      is_29bits(a)), MaxInjectDlc)

SpecDlc == InitDlc /\ [][NextDlc]_vars

(* ---------------- the copy of the engine in vector_can --------------- *)
\* process_tx of the copy, TxState IDLE: the queue is read up to the first
\* non-empty message, which is the one message this call starts
RECURSIVE vc_tx_idle(_)
vc_tx_idle(r) ==
    IF r.e.tx_queue = <<>> THEN r
    ELSE LET popped_object == Head(r.e.tx_queue)
             e1 == [r.e EXCEPT !.tx_queue = Tail(@)]
         IN  IF popped_object.data = <<>> THEN vc_tx_idle(TxResult(e1, r.out))
             ELSE start_transmission(e1, popped_object)

\* process_tx of the copy after the FlowControl handling: timeouts and state
\* machine, the same statements as in can_comm but for the IDLE branch
vc_tx_state_machine(e) ==
    LET e1 == IF is_timed_out(e.timer_rx_fc)
              THEN stop_sending(error_callback(e, "FlowControlTimeoutError"))
              ELSE e
        e2 == IF e1.tx_state # TxIDLE /\ e1.tx_buffer = <<>> THEN stop_sending(e1) ELSE e1
    IN  CASE e2.tx_state = TxIDLE -> vc_tx_idle(TxResult(e2, <<>>))
          [] e2.tx_state = TxWAIT_FC -> TxResult(e2, <<>>)
          [] OTHER -> tx_transmit_cf(e2)

vc_process_tx(e) ==
    IF e.pending_flow_control_tx
    THEN LET e0 == [e EXCEPT !.pending_flow_control_tx = FALSE]
             m  == make_flow_control(e0, e0.flow_control_status)
         IN  IF m = <<>> THEN TxRaised(e0) ELSE TxResult(e0, m)
    ELSE LET flow_control_frame == e.last_flow_control_frame
             e0 == [e EXCEPT !.last_flow_control_frame = <<>>]
         IN  IF flow_control_frame # <<>> /\ flow_control_frame[1].flow_status = Overflow
             THEN TxResult(error_callback(stop_sending(e0), "OverFlowError"), <<>>)
             ELSE IF flow_control_frame # <<>>
             THEN vc_tx_state_machine(tx_flow_control(e0, flow_control_frame[1]))
             ELSE vc_tx_state_machine(e0)

\* engine A is the can_comm copy and engine V the vector_can copy, built with
\* the same address and parameters
InitEq == InitWith([i \in {"A", "V"} |-> TransportLayer(AddrA, ParamsA)])

\* the application calls send() with the same arguments on both copies
SendBoth(data, target_address_type) ==
    /\ \A i \in Engines : pc[i] = "idle"
    /\ Len(env.sent) < MaxSendsEq
    /\ \A i \in Engines : send_accepts(tl[i], data, target_address_type)
    /\ tl' = [i \in Engines |-> send(tl[i], data, target_address_type)]
    /\ env' = [env EXCEPT !.sent = Append(@, data)]
    /\ step' = StepOf("send", "A", <<>>, <<>>)
    /\ UNCHANGED <<pc, inbox, wire, delivered, rcvd>>

\* the bus driver has the same frame for rxfn of both copies
InjectBoth(f) ==
    /\ \A i \in Engines : pc[i] = "idle"
    /\ env.injects < MaxInjectEq
    /\ inbox' = [i \in Engines |-> Append(inbox[i], f)]
    /\ env' = [env EXCEPT !.injects = @ + 1]
    /\ UNCHANGED <<tl, pc, wire, delivered, rcvd, step>>

\* the application calls process() on both copies
ProcessStartBoth ==
    /\ \A i \in Engines : pc[i] = "idle"
    /\ pc' = [i \in Engines |-> "rx"]
    /\ step' = StepOf("process", "A", <<>>, <<>>)
    /\ UNCHANGED <<tl, inbox, wire, delivered, rcvd, env>>

\* process() of the vector_can copy: process_tx is called, and called again as
\* long as it returns a message, which goes to txfn
ProcessTxV ==
    /\ pc["V"] = "tx" \/ (pc["V"] = "rx" /\ inbox["V"] = <<>>)
    /\ LET r == vc_process_tx([tl["V"] EXCEPT !.errs = <<>>]) IN
         /\ tl' = [tl EXCEPT !["V"] = r.e]
         /\ wire' = [wire EXCEPT !["V"] = @ \o r.out]
         /\ pc' = [pc EXCEPT !["V"] = IF r.out = <<>> THEN "idle" ELSE "tx"]
         /\ step' = StepOf("tx", "V", <<>>, r.out)
    /\ UNCHANGED <<inbox, delivered, rcvd, env>>

\* SpecEq: the two copies side by side, with the same calls and the same
\* inbound frames; no timer with a timeout above 0 expires
NextEq ==
    \/ \E d \in AppPayloads : SendBoth(d, Physical)
    \/ \E f \in FlowControlFrames \cup {FF_9, CF_1} : InjectBoth(f)
    \/ ProcessStartBoth
    \/ \E i \in Engines : ProcessRx(i)
    \/ ProcessTx("A")
    \/ ProcessTxV

SpecEq == InitEq /\ [][NextEq]_vars

TypeOK ==
    \A i \in Engines :
        /\ tl[i].rx_state \in {RxIDLE, RxWAIT_CF}
        /\ tl[i].tx_state \in {TxIDLE, TxWAIT_FC, TxTRANSMIT_CF}

(* ------------------------------------------------------------------ *)
(* Properties                                                         *)
(* ------------------------------------------------------------------ *)
\* no process() call is running, the bus has carried every frame, and no engine
\* has a message, a transfer or a FlowControl left to handle
Quiet ==
    \A i \in Engines :
        /\ pc[i] = "idle"
        /\ inbox[i] = <<>>
        /\ delivered[i] = Len(wire[i])
        /\ tl[i].tx_queue = <<>> /\ tl[i].rx_queue = <<>>
        /\ tl[i].tx_state = TxIDLE /\ tl[i].rx_state = RxIDLE
        /\ ~tl[i].pending_flow_control_tx
        /\ tl[i].last_flow_control_frame = <<>>

\* C1: round-trip identity.  Once A has sent P (0 <= |P| <= max_frame_size) and
\* the two engines have been pumped over the lossless bus until nothing is left
\* to do, B.receive() has returned exactly P, once, and nothing else.
RoundTrip_C1 ==
    (Quiet /\ env.sent # <<>>) => rcvd["B"] = env.sent

\* s is the tail of m from some position on
IsSuffix(s, m) == Len(s) <= Len(m) /\ s = SliceFrom(m, Len(m) - Len(s))

\* how many messages with data a step removed from the transmission queue of i
NonEmptyRemoved(i) ==
    LET q == tl[i].tx_queue
        n == Len(q) - Len(tl'[i].tx_queue)
    IN  Cardinality({k \in 1..n : q[k].data # <<>>})

\* C2: one application message is in flight for TX at a time.  A call of
\* _process_tx removes at most one message with data from the TX queue; a call
\* that starts in WAIT_FC or TRANSMIT_CF and reports no abort removes none; and
\* while TxState is WAIT_FC or TRANSMIT_CF tx_buffer is the rest of one message.
OneInFlight_C2 ==
    [][\A i \in Engines : ProcessTx(i) =>
          /\ NonEmptyRemoved(i) <= 1
          /\ (tl[i].tx_state # TxIDLE /\ tl'[i].errs = <<>>) =>
                 tl'[i].tx_queue = tl[i].tx_queue
          /\ tl'[i].tx_state # TxIDLE =>
                 \E k \in 1..Len(env.sent) : IsSuffix(tl'[i].tx_buffer, env.sent[k])]_vars

\* the frames of w that are not FlowControl frames, decoded
RECURSIVE DataPdus(_, _)
DataPdus(w, start_of_data) ==
    IF w = <<>> THEN <<>>
    ELSE LET pdu == CanFrame(Head(w), start_of_data) IN
         IF pdu.ok /\ pdu.type # FLOW_CONTROL
         THEN <<pdu>> \o DataPdus(Tail(w), start_of_data)
         ELSE DataPdus(Tail(w), start_of_data)

\* the data bytes of the frames f..k of w
RECURSIVE Carried(_, _, _)
Carried(w, f, k) == IF f > k THEN <<>> ELSE w[f].data \o Carried(w, f + 1, k)

\* c starts the message m (bytes of c past the end of m are padding)
Starts(c, m) == \A x \in 1..Min(Len(c), Len(m)) : c[x] = m[x]

\* C3: the frames handed to txfn are in ISO order.  Every FirstFrame declares
\* the length of a sent message and carries its leading bytes; every
\* ConsecutiveFrame follows a FirstFrame with only ConsecutiveFrames between,
\* and FirstFrame and ConsecutiveFrames together carry consecutive slices of
\* that one message.
IsoOrder_C3 ==
    \A i \in Engines :
        LET w == DataPdus(wire[i], rx_prefix_size(tl[i].address)) IN
        \A k \in 1..Len(w) :
            /\ w[k].type = FIRST_FRAME =>
                  \E n \in 1..Len(env.sent) :
                      Len(env.sent[n]) = w[k].length /\ Starts(w[k].data, env.sent[n])
            /\ w[k].type = CONSECUTIVE_FRAME =>
                  \E f \in 1..(k - 1) :
                      /\ w[f].type = FIRST_FRAME
                      /\ \A j \in (f + 1)..k : w[j].type = CONSECUTIVE_FRAME
                      /\ \E n \in 1..Len(env.sent) :
                            /\ Len(env.sent[n]) = w[f].length
                            /\ Starts(Carried(w, f, k), env.sent[n])

\* the frame a ProcessRx step of i hands to _process_rx, decoded
RxPdu(i) == CanFrame(Head(inbox[i]), rx_prefix_size(tl[i].address))

\* a ProcessRx step of i whose frame is addressed to i and decodes
RxStep(i) == ProcessRx(i) /\ is_for_me(tl[i].address, Head(inbox[i])) /\ RxPdu(i).ok

\* a ProcessRx step that gets a ConsecutiveFrame while RxState is WAIT_CF
CFInWaitCF(i) ==
    /\ RxStep(i)
    /\ RxPdu(i).type = CONSECUTIVE_FRAME
    /\ tl[i].rx_state = RxWAIT_CF

\* ... and the frame is accepted: its data joins the reassembly buffer, or
\* completes the payload, which is published
AcceptsCF(i) ==
    /\ CFInWaitCF(i)
    /\ \/ Len(tl'[i].rx_buffer) > Len(tl[i].rx_buffer)
       \/ Len(tl'[i].rx_queue) > Len(tl[i].rx_queue)

\* a ProcessTx step of i that hands a frame to txfn, and that frame decoded
Emits(i) == ProcessTx(i) /\ step'.out # <<>>

OutPdu(i) == CanFrame(step'.out[1], rx_prefix_size(tl[i].address))

\* the frame i handed to txfn before this step, decoded
PrevPdu(i) == CanFrame(wire[i][Len(wire[i])], rx_prefix_size(tl[i].address))

\* C4: ConsecutiveFrame sequence numbers run 1, 2, ..., 15, 0, 1, ...  The
\* sender sets tx_seq_num to 1 when it emits a FirstFrame, numbers each
\* ConsecutiveFrame with tx_seq_num and then advances it by one modulo 16, so
\* that the frame after a FirstFrame has number 1 and the frame after a
\* ConsecutiveFrame the next number; the
\* receiver sets last_seq_num to 0 on a FirstFrame and accepts a
\* ConsecutiveFrame only if its number is (last_seq_num + 1) mod 16.
SeqNumbers_C4 ==
    [][\A i \in Engines :
          /\ Emits(i) =>
                /\ OutPdu(i).type = FIRST_FRAME => tl'[i].tx_seq_num = 1
                /\ OutPdu(i).type = CONSECUTIVE_FRAME =>
                      /\ OutPdu(i).seq_num = tl[i].tx_seq_num
                      /\ tl'[i].tx_state # TxIDLE =>
                             tl'[i].tx_seq_num = (tl[i].tx_seq_num + 1) % 16
                /\ (OutPdu(i).type = CONSECUTIVE_FRAME /\ wire[i] # <<>>) =>
                      /\ PrevPdu(i).type = FIRST_FRAME => OutPdu(i).seq_num = 1
                      /\ PrevPdu(i).type = CONSECUTIVE_FRAME =>
                             OutPdu(i).seq_num = (PrevPdu(i).seq_num + 1) % 16
          /\ (RxStep(i) /\ RxPdu(i).type = FIRST_FRAME /\ tl'[i].rx_state = RxWAIT_CF) =>
                tl'[i].last_seq_num = 0
          /\ AcceptsCF(i) =>
                /\ RxPdu(i).seq_num = (tl[i].last_seq_num + 1) % 16
                /\ tl'[i].last_seq_num = RxPdu(i).seq_num]_vars

\* B has accepted the 16th ConsecutiveFrame of a transfer, which carries number 0
Wrap_C4 ==
    /\ step.op = "rx" /\ step.who = "B"
    /\ tl["B"].rx_state = RxWAIT_CF
    /\ tl["B"].rx_block_counter = 16
    /\ tl["B"].last_seq_num = 0
    /\ Len(wire["A"]) >= 17

\* the frame handed to txfn by this step is a FlowControl with this status
EmitsFlowControl(i, flow_status) ==
    /\ Emits(i)
    /\ OutPdu(i).ok /\ OutPdu(i).type = FLOW_CONTROL
    /\ OutPdu(i).flow_status = flow_status
    /\ OutPdu(i).block_size = tl[i].params.block_size
    /\ OutPdu(i).st_min = tl[i].params.st_min

\* What the code does at a block boundary.  The ConsecutiveFrame that brings the
\* count of accepted frames of an unfinished transfer to a multiple of
\* block_size requests a FlowControl CTS and stops the CF timer, any other
\* accepted frame of an unfinished transfer requests nothing; a TX pump that
\* finds a request pending emits that one FlowControl and clears the request;
\* a TX pump that finds none emits no FlowControl.
BlockFlowControl(i) ==
    /\ (AcceptsCF(i) /\ tl'[i].rx_state = RxWAIT_CF /\ tl[i].params.block_size > 0) =>
          IF tl'[i].rx_block_counter % tl[i].params.block_size = 0
          THEN /\ tl'[i].pending_flow_control_tx
               /\ tl'[i].flow_control_status = ContinueToSend
               /\ ~tl'[i].timer_rx_cf.started
          ELSE tl'[i].pending_flow_control_tx = tl[i].pending_flow_control_tx
    /\ (ProcessTx(i) /\ tl[i].pending_flow_control_tx
          /\ tl[i].flow_control_status = ContinueToSend) =>
          /\ EmitsFlowControl(i, ContinueToSend)
          /\ ~tl'[i].pending_flow_control_tx
    /\ (Emits(i) /\ ~tl[i].pending_flow_control_tx) => OutPdu(i).type # FLOW_CONTROL

\* the FlowControl of a completed block has been requested and not yet emitted
BlockFlowControlOwed(i) ==
    /\ tl[i].rx_state = RxWAIT_CF
    /\ tl[i].pending_flow_control_tx
    /\ tl[i].params.block_size > 0
    /\ tl[i].rx_block_counter > 0
    /\ tl[i].rx_block_counter % tl[i].params.block_size = 0

\* C5 as written: with block_size > 0, after block_size accepted
\* ConsecutiveFrames of an unfinished transfer the receiver emits exactly one
\* FlowControl CTS before it accepts a further ConsecutiveFrame, whatever the
\* arrival pattern: no ConsecutiveFrame is accepted while that FlowControl is owed.
GatedBlock_C5 ==
    [][\A i \in Engines :
          /\ BlockFlowControl(i)
          /\ AcceptsCF(i) => ~BlockFlowControlOwed(i)]_vars

\* C5, corrected: with block_size > 0, the ConsecutiveFrame that completes a
\* block of an unfinished transfer requests a FlowControl CTS, and the TX pump
\* that finds the request pending emits exactly one FlowControl CTS; the
\* receiver does not hold back ConsecutiveFrames drained before that pump.
Block_C5 == [][\A i \in Engines : BlockFlowControl(i)]_vars

\* the TX pump has emitted the FlowControl CTS of the first block of a transfer
BlockDone_C5 ==
    /\ step.op = "tx" /\ step.out # <<>>
    /\ CanFrame(step.out[1], rx_prefix_size(tl[step.who].address)).type = FLOW_CONTROL
    /\ tl[step.who].rx_state = RxWAIT_CF
    /\ tl[step.who].rx_block_counter = tl[step.who].params.block_size
    /\ ~tl[step.who].pending_flow_control_tx

\* C6: process() never raises.  No exception leaves _process_rx or _process_tx,
\* whatever the frames, calls and timer expiries; RxState stays in {IDLE,
\* WAIT_CF} and TxState in {IDLE, WAIT_FC, TRANSMIT_CF}.
NeverRaises_C6 ==
    \A i \in Engines :
        /\ ~tl[i].raised
        /\ tl[i].rx_state \in {RxIDLE, RxWAIT_CF}
        /\ tl[i].tx_state \in {TxIDLE, TxWAIT_FC, TxTRANSMIT_CF}

\* a frame that does not decode has been reported to the error handler while a
\* transmission was waiting for its FlowControl
Anomaly_C6 ==
    /\ step.op = "rx"
    /\ tl[step.who].errs = <<"InvalidCanDataError">>
    /\ tl[step.who].tx_state = TxWAIT_FC
    /\ ~tl[step.who].raised

\* the FlowControl Overflow has been requested and not yet emitted
OverflowOwed(i) ==
    tl[i].pending_flow_control_tx /\ tl[i].flow_control_status = Overflow

\* C7: an accepted FirstFrame that declares more than max_frame_size bytes is
\* reported as FrameTooLong, leaves RxState IDLE and publishes nothing, and the
\* next TX pump emits a FlowControl Overflow: the request made by the
\* FirstFrame is still pending when that pump runs.
Overflow_C7 ==
    [][\A i \in Engines :
          /\ (RxStep(i) /\ RxPdu(i).type = FIRST_FRAME
                /\ RxPdu(i).rx_dl \in {8, 12, 16, 20, 24, 32, 48, 64}
                /\ RxPdu(i).length > tl[i].params.max_frame_size) =>
                /\ \E k \in 1..Len(tl'[i].errs) : tl'[i].errs[k] = "FrameTooLongError"
                /\ tl'[i].rx_state = RxIDLE
                /\ tl'[i].rx_buffer = <<>>
                /\ tl'[i].rx_queue = tl[i].rx_queue
                /\ OverflowOwed(i)'
          /\ (ProcessRx(i) /\ OverflowOwed(i)) => OverflowOwed(i)'
          /\ (ProcessTx(i) /\ OverflowOwed(i)) => EmitsFlowControl(i, Overflow)]_vars

\* the number of the frame is not the one after last_seq_num
WrongNumber(i) == RxPdu(i).seq_num # (tl[i].last_seq_num + 1) % 16

\* the reception is over and nothing of it has been published
ReceptionDropped(i) ==
    /\ tl'[i].rx_state = RxIDLE
    /\ tl'[i].rx_buffer = <<>>
    /\ tl'[i].rx_queue = tl[i].rx_queue

\* a ConsecutiveFrame that arrives in IDLE, as the later frames of an aborted
\* transfer do, publishes nothing and leaves RxState IDLE
LateCF(i) ==
    (RxStep(i) /\ RxPdu(i).type = CONSECUTIVE_FRAME /\ tl[i].rx_state = RxIDLE) =>
        /\ tl'[i].rx_state = RxIDLE
        /\ tl'[i].rx_queue = tl[i].rx_queue

\* C8 as written: in RxState WAIT_CF a ConsecutiveFrame with a number other
\* than (last_seq_num + 1) mod 16 is reported as WrongSequenceNumber and leaves
\* RxState IDLE with an empty buffer and nothing published, also when further
\* ConsecutiveFrames of the transfer arrive.
WrongSeq_C8 ==
    [][\A i \in Engines :
          /\ (CFInWaitCF(i) /\ WrongNumber(i)) =>
                /\ tl'[i].errs = <<"WrongSequenceNumberError">>
                /\ ReceptionDropped(i)
          /\ LateCF(i)]_vars

\* C8, corrected: the report is WrongSequenceNumber when the CF timer has not
\* expired; when it has, the frame is reported as ConsecutiveFrameTimeout and
\* then as UnexpectedConsecutiveFrame.  In both cases RxState is IDLE, the
\* buffer is empty and nothing is published, also for later ConsecutiveFrames.
WrongSeqTimer_C8 ==
    [][\A i \in Engines :
          /\ (CFInWaitCF(i) /\ WrongNumber(i)) =>
                /\ tl'[i].errs = IF is_timed_out(tl[i].timer_rx_cf)
                                 THEN <<"ConsecutiveFrameTimeoutError",
                                        "UnexpectedConsecutiveFrameError">>
                                 ELSE <<"WrongSequenceNumberError">>
                /\ ReceptionDropped(i)
          /\ LateCF(i)]_vars

\* a transfer with data in the buffer has been aborted by a wrong sequence number
Aborted_C8 ==
    /\ step.op = "rx" /\ step.rx_state = RxWAIT_CF
    /\ tl[step.who].errs = <<"WrongSequenceNumberError">>
    /\ tl[step.who].rx_state = RxIDLE
    /\ tl[step.who].rx_block_counter = 1

\* a TX pump of i that consumes a FlowControl with this status during a transmission
ConsumesFlowControl(i, flow_status) ==
    /\ ProcessTx(i)
    /\ ~tl[i].pending_flow_control_tx
    /\ tl[i].last_flow_control_frame # <<>>
    /\ tl[i].last_flow_control_frame[1].flow_status = flow_status
    /\ tl[i].tx_state # TxIDLE

\* a Wait that is tolerated: wft_counter is incremented, TxState is WAIT_FC and
\* the FC timer is restarted
ToleratedWait(i) ==
    /\ tl'[i].wft_counter = tl[i].wft_counter + 1
    /\ tl'[i].tx_state = TxWAIT_FC
    /\ tl'[i].timer_rx_fc.started /\ ~tl'[i].timer_rx_fc.expired
    /\ tl'[i].tx_buffer = tl[i].tx_buffer
    /\ tl'[i].errs = <<>>

WftInRange(i) == 0 <= tl[i].wft_counter /\ tl[i].wft_counter <= tl[i].params.wft_max

\* C9 as written: with wft_max > 0 each tolerated Wait increments wft_counter,
\* puts TxState in WAIT_FC and restarts the FC timer; the Wait after
\* wft_counter has reached wft_max is reported as MaximumWaitFrameReached and
\* the pump ends with TxState IDLE and tx_buffer empty; 0 <= wft_counter <= wft_max.
WaitFrames_C9 ==
    [][\A i \in Engines :
          /\ WftInRange(i) /\ WftInRange(i)'
          /\ (ConsumesFlowControl(i, Wait) /\ tl[i].params.wft_max > 0) =>
                IF tl[i].wft_counter < tl[i].params.wft_max
                THEN ToleratedWait(i)
                ELSE /\ tl'[i].errs = <<"MaximumWaitFrameReachedError">>
                     /\ tl'[i].tx_state = TxIDLE
                     /\ tl'[i].tx_buffer = <<>>]_vars

\* C9, corrected: as above, but the Wait after wft_counter has reached wft_max
\* stops the transmission and the same pump goes on to the TX queue: it ends
\* with TxState IDLE and tx_buffer empty when the queue is empty, and otherwise
\* has started on the queued messages, with wft_counter 0 in either case.
WaitFramesQueue_C9 ==
    [][\A i \in Engines :
          /\ WftInRange(i) /\ WftInRange(i)'
          /\ (ConsumesFlowControl(i, Wait) /\ tl[i].params.wft_max > 0) =>
                IF tl[i].wft_counter < tl[i].params.wft_max
                THEN ToleratedWait(i)
                ELSE /\ tl'[i].errs = <<"MaximumWaitFrameReachedError">>
                     /\ tl'[i].wft_counter = 0
                     /\ IF tl[i].tx_queue = <<>>
                        THEN tl'[i].tx_state = TxIDLE /\ tl'[i].tx_buffer = <<>>
                        ELSE /\ tl'[i].tx_queue = <<>>
                             /\ \E k \in 1..Len(tl[i].tx_queue) :
                                    IsSuffix(tl'[i].tx_buffer, tl[i].tx_queue[k].data)]_vars

\* the Wait after the tolerated ones has aborted a transmission
WaitAbort_C9 ==
    /\ step.op = "tx" /\ step.tx_state = TxWAIT_FC
    /\ tl[step.who].errs = <<"MaximumWaitFrameReachedError">>
    /\ tl[step.who].tx_state = TxIDLE
    /\ tl[step.who].tx_buffer = <<>>

\* C10: a FlowControl Overflow consumed by the TX pump during a transmission is
\* reported as Overflow, leaves TxState IDLE and tx_buffer empty and emits
\* nothing; a ConsecutiveFrame is emitted only in TRANSMIT_CF and carries the
\* head of tx_buffer, so none of the discarded message follows.
OverflowAbort_C10 ==
    [][\A i \in Engines :
          /\ ConsumesFlowControl(i, Overflow) =>
                /\ tl'[i].errs = <<"OverFlowError">>
                /\ tl'[i].tx_state = TxIDLE
                /\ tl'[i].tx_buffer = <<>>
                /\ tl'[i].tx_queue = tl[i].tx_queue
                /\ step'.out = <<>>
          /\ (Emits(i) /\ OutPdu(i).type = CONSECUTIVE_FRAME) =>
                /\ tl[i].tx_buffer # <<>>
                /\ Starts(OutPdu(i).data, tl[i].tx_buffer)
                /\ Len(OutPdu(i).data) <= Len(tl[i].tx_buffer)]_vars

\* an Overflow has aborted a transmission that had ConsecutiveFrames left to send
Aborted_C10 ==
    /\ step.op = "tx" /\ step.tx_state # TxIDLE
    /\ tl[step.who].errs = <<"OverFlowError">>
    /\ tl[step.who].tx_state = TxIDLE
    /\ tl[step.who].tx_buffer = <<>>

\* the handler step of i reports this error
Reports(i, error) == \E k \in 1..Len(tl'[i].errs) : tl'[i].errs[k] = error

\* a TX pump of i that has no FlowControl of its own to emit and finds the FC
\* timer fired
FCFired(i) ==
    /\ ProcessTx(i)
    /\ ~tl[i].pending_flow_control_tx
    /\ is_timed_out(tl[i].timer_rx_fc)

\* the FlowControl buffered for this pump stops or restarts the FC timer before
\* the timeout check: an Overflow, or a Wait when Wait frames are supported
TimerHandledByFlowControl(i) ==
    /\ tl[i].last_flow_control_frame # <<>>
    /\ \/ tl[i].last_flow_control_frame[1].flow_status = Overflow
       \/ /\ tl[i].last_flow_control_frame[1].flow_status = Wait
          /\ tl[i].tx_state # TxIDLE
          /\ tl[i].params.wft_max > 0

\* the pump has dropped the message in transmission and gone on to the TX
\* queue: with no message queued it ends in IDLE with an empty buffer and emits
\* nothing, otherwise it has emptied the queue and started on a queued message
AbortedThenQueue(i) ==
    IF \A k \in 1..Len(tl[i].tx_queue) : tl[i].tx_queue[k].data = <<>>
    THEN /\ tl'[i].tx_state = TxIDLE
         /\ tl'[i].tx_buffer = <<>>
         /\ step'.out = <<>>
    ELSE /\ tl'[i].tx_queue = <<>>
         /\ \E k \in 1..Len(tl[i].tx_queue) :
                IsSuffix(tl'[i].tx_buffer, tl[i].tx_queue[k].data)
         /\ step'.out # <<>> /\ OutPdu(i).type \in {SINGLE_FRAME, FIRST_FRAME}

\* C11 as written: a TX pump at which the FC timer has fired reports
\* FlowControlTimeout and ends with TxState IDLE and tx_buffer empty; a CTS
\* consumed after the timer has fired does not resume the transmission.
FcTimeout_C11 ==
    [][\A i \in Engines :
          /\ FCFired(i) =>
                /\ Reports(i, "FlowControlTimeoutError")
                /\ tl'[i].tx_state = TxIDLE
                /\ tl'[i].tx_buffer = <<>>
          /\ (FCFired(i) /\ ConsumesFlowControl(i, ContinueToSend)) =>
                tl'[i].tx_state # TxTRANSMIT_CF]_vars

\* C11, corrected: a TX pump that has no FlowControl of its own to emit and
\* reaches the timeout check with the FC timer fired (it has not consumed an
\* Overflow, nor a Wait with wft_max > 0, which stop or restart the timer)
\* reports FlowControlTimeout, stops the transmission and goes on to the TX
\* queue in the same pump, so it ends with TxState IDLE and tx_buffer empty
\* only when no message is queued; a CTS consumed after the timer has fired is
\* dropped: no ConsecutiveFrame of the message follows.
FcTimeoutCheck_C11 ==
    [][\A i \in Engines :
          /\ (FCFired(i) /\ ~TimerHandledByFlowControl(i)) =>
                /\ Reports(i, "FlowControlTimeoutError")
                /\ tl'[i].wft_counter = 0 /\ tl'[i].tx_block_counter = 0
                /\ ~is_timed_out(tl'[i].timer_rx_fc)
                /\ AbortedThenQueue(i)
          /\ (FCFired(i) /\ TimerHandledByFlowControl(i)) =>
                ~Reports(i, "FlowControlTimeoutError")
          /\ (FCFired(i) /\ ConsumesFlowControl(i, ContinueToSend)) =>
                /\ tl'[i].tx_state # TxTRANSMIT_CF
                /\ tl'[i].remote_block_size = None
                /\ step'.out # <<>> => OutPdu(i).type # CONSECUTIVE_FRAME
          /\ (ProcessTx(i) /\ ~is_timed_out(tl[i].timer_rx_fc)) =>
                ~Reports(i, "FlowControlTimeoutError")]_vars

\* a CTS that came after the FC timer had fired has been dropped, and the
\* transmission aborted with data left to send
TimedOut_C11 ==
    /\ step.op = "tx" /\ step.tx_state = TxWAIT_FC
    /\ tl[step.who].errs = <<"FlowControlTimeoutError">>
    /\ tl[step.who].tx_state = TxIDLE
    /\ tl[step.who].tx_buffer = <<>>
    /\ env.injects > 0 /\ inbox[step.who] = <<>>

\* a TX pump that finds a FlowControl request pending emits that FlowControl,
\* with the status requested and the block size and STmin of the params, clears
\* the request and does nothing else: the transmission, its timers and the TX
\* queue are as before; a TX pump that finds no request emits no FlowControl
FlowControlFirst(i) ==
    /\ (ProcessTx(i) /\ tl[i].pending_flow_control_tx) =>
          /\ EmitsFlowControl(i, tl[i].flow_control_status)
          /\ tl'[i] = [tl[i] EXCEPT !.pending_flow_control_tx = FALSE, !.errs = <<>>]
    /\ (Emits(i) /\ ~tl[i].pending_flow_control_tx) => OutPdu(i).type # FLOW_CONTROL

single_small_cap(e) ==
    e.params.tx_data_length - (IF e.params.tx_data_length = 8 THEN 1 ELSE 2)
      - Len(tx_payload_prefix(e.address))

\* the number of messages this step takes from the TX queue of i
Popped(i) == Len(tl[i].tx_queue) - Len(tl'[i].tx_queue)

\* the frame handed to txfn by this pump is a SingleFrame on the functional
\* arbitration id that carries this payload
EmitsFunctionalSingle(i, data) ==
    /\ Emits(i)
    /\ step'.out[1].arbitration_id = get_tx_arbitration_id(tl[i].address, Functional)
    /\ OutPdu(i).ok /\ OutPdu(i).type = SINGLE_FRAME
    /\ OutPdu(i).data = data
    /\ tl'[i].tx_state = TxIDLE

\* C13: send(data, Functional) raises a value error and changes nothing when
\* len(data) > tx_data_length - (1 if tx_data_length == 8 else 2) - len(prefix),
\* and accepts the payload otherwise; every payload accepted with functional
\* addressing is emitted as one SingleFrame on the functional arbitration id
\* by the pump that takes it from the TX queue, never as a FirstFrame.
Functional_C13 ==
    [][\A i \in Engines :
          /\ \A d \in FnPayloads :
                /\ Send(i, d, Functional, MaxSendsFn) => Len(d) <= single_small_cap(tl[i])
                /\ SendRejected(i, d, Functional) =>
                      Len(d) > single_small_cap(tl[i]) /\ tl' = tl
          /\ ProcessTx(i) =>
                \A k \in 1..Popped(i) :
                    tl[i].tx_queue[k].target_address_type = Functional =>
                        EmitsFunctionalSingle(i, tl[i].tx_queue[k].data)]_vars

\* the transfer state claimed for an engine that has just been reset, but for
\* rx_block_counter
Cleared(e) ==
    /\ e.tx_queue = <<>> /\ e.rx_queue = <<>>
    /\ e.rx_state = RxIDLE /\ e.tx_state = TxIDLE
    /\ e.rx_buffer = <<>> /\ e.tx_buffer = <<>>
    /\ e.tx_block_counter = 0 /\ e.tx_seq_num = 0 /\ e.wft_counter = 0
    /\ ~e.timer_rx_fc.started /\ ~e.timer_rx_cf.started /\ ~e.timer_tx_st_min.started
    /\ ~e.pending_flow_control_tx
    /\ e.last_flow_control_frame = <<>>

Scenario2 ==
    /\ tl["A"].address = AddrA
    /\ tl["B"].params.block_size = 4 /\ tl["B"].params.st_min = 0
    /\ tl["A"].params.tx_data_length = 8 /\ tl["A"].params.tx_padding = None
    /\ tl["A"].params.tx_data_min_length = None
    /\ env.sent = <<Payload(1, 20)>>

\* the frames of scenario 2
Scenario2FromA ==
    << CanMessage(2016, 8, <<16, 20, 1, 2, 3, 4, 5, 6>>, FALSE),
       CanMessage(2016, 8, <<33, 7, 8, 9, 10, 11, 12, 13>>, FALSE),
       CanMessage(2016, 8, <<34, 14, 15, 16, 17, 18, 19, 20>>, FALSE) >>

Scenario2FromB == << CanMessage(2024, 3, <<48, 4, 0>>, FALSE) >>

\* C15: in scenario 2 the bus carries FirstFrame 10 14 01..06 from A,
\* FlowControl 30 04 00 from B, then ConsecutiveFrames 21 07..0D and 22 0E..14
\* from A, in this order and nothing else; B's receive() returns the 20 bytes,
\* once, and has returned them when both engines have come to rest.
Scenario_C15 ==
    Scenario2 =>
        /\ wire["A"] = SliceTo(Scenario2FromA, Len(wire["A"]))
        /\ wire["B"] = SliceTo(Scenario2FromB, Len(wire["B"]))
        /\ wire["B"] # <<>> => delivered["A"] >= 1
        /\ Len(wire["A"]) >= 2 => delivered["B"] = 1
        /\ rcvd["B"] \in {<<>>, <<Payload(1, 20)>>}
        /\ tl["B"].rx_queue \in {<<>>, <<Payload(1, 20)>>}
        /\ rcvd["A"] = <<>> /\ tl["A"].rx_queue = <<>>
        /\ \A i \in Engines : tl[i].errs = <<>>
        /\ Quiet => /\ rcvd["B"] = <<Payload(1, 20)>>
                    /\ wire["A"] = Scenario2FromA
                    /\ wire["B"] = Scenario2FromB

\* scenario 2 has run to its end
Done_C15 ==
    /\ Scenario2 /\ Quiet
    /\ Len(wire["A"]) = 3 /\ Len(wire["B"]) = 1
    /\ rcvd["B"] = <<Payload(1, 20)>>

\* C16: every SingleFrame the encoder builds, in the small form [len][data] or
\* in the escape form [0x00][len][data], after the addressing prefix if there
\* is one and before the padding if there is any, decodes with start_of_data =
\* prefix size to a Single PDU whose data is the payload P it was built from
\* (the content of tx_buffer, a message taken from the TX queue by this pump)
\* and whose length is |P|.
SingleCodec_C16 ==
    [][\A i \in Engines :
          (Emits(i) /\ OutPdu(i).type = SINGLE_FRAME) =>
              /\ OutPdu(i).ok
              /\ OutPdu(i).data = tl'[i].tx_buffer
              /\ OutPdu(i).length = Len(tl'[i].tx_buffer)
              /\ \E k \in 1..Popped(i) : tl[i].tx_queue[k].data = OutPdu(i).data
              /\ SliceTo(step'.out[1].data, rx_prefix_size(tl[i].address))
                   = tx_payload_prefix(tl[i].address)]_vars

\* a SingleFrame in the escape form, with padding after the payload, has been
\* emitted and decodes to its payload
EscapePadded_C16 ==
    /\ step.op = "tx" /\ step.out # <<>>
    /\ LET pdu == CanFrame(step.out[1], rx_prefix_size(tl[step.who].address)) IN
         /\ pdu.ok /\ pdu.type = SINGLE_FRAME /\ pdu.escape_sequence
         /\ pdu.data = tl[step.who].tx_buffer
         /\ Len(step.out[1].data) > pdu.length + 2 + rx_prefix_size(tl[step.who].address)

\* padding is enabled
PaddingEnabled(p) ==
    p.tx_padding # None \/ p.tx_data_min_length # None \/ p.tx_data_length > 8

\* the data lengths of CAN FD
LegalSizes == {0, 1, 2, 3, 4, 5, 6, 7, 8, 12, 16, 20, 24, 32, 48, 64}

\* the last message with data among those this pump takes from the TX queue
LastPopped(i) ==
    LET k == CHOOSE k \in 1..Popped(i) :
                 /\ tl[i].tx_queue[k].data # <<>>
                 /\ \A j \in (k + 1)..Popped(i) : tl[i].tx_queue[j].data = <<>>
    IN  tl[i].tx_queue[k].data

\* the frame of this pump before padding, rebuilt from the state of the
\* engine: the addressing prefix, the protocol control bytes and the payload
\* bytes the frame carries
Unpadded(i) ==
    LET prefix == tx_payload_prefix(tl[i].address)
        tdl    == tl[i].params.tx_data_length
    IN  IF tl[i].pending_flow_control_tx
        THEN prefix \o <<48 + tl[i].flow_control_status, tl[i].params.block_size,
                         tl[i].params.st_min>>
        ELSE CASE OutPdu(i).type = SINGLE_FRAME ->
                    prefix \o (IF Len(LastPopped(i)) <= 7 THEN <<Len(LastPopped(i))>>
                               ELSE <<0, Len(LastPopped(i))>>) \o LastPopped(i)
               [] OutPdu(i).type = FIRST_FRAME ->
                    prefix \o <<16 + (Len(LastPopped(i)) \div 256), Len(LastPopped(i)) % 256>>
                      \o SliceTo(LastPopped(i), tdl - 2 - Len(prefix))
               [] OTHER ->
                    prefix \o <<32 + tl[i].tx_seq_num>>
                      \o SliceTo(tl[i].tx_buffer, tdl - 1 - Len(prefix))

\* C17: with padding enabled, the data of every frame the engine emits has a
\* legal CAN FD length, not less than the length of the unpadded frame, begins
\* with the unpadded frame unchanged, and goes on with padding bytes only.
Padding_C17 ==
    [][\A i \in Engines :
          (Emits(i) /\ PaddingEnabled(tl[i].params)) =>
              LET data == step'.out[1].data
                  n    == Len(Unpadded(i))
              IN  /\ Len(data) \in LegalSizes
                  /\ Len(data) >= n
                  /\ SliceTo(data, n) = Unpadded(i)
                  /\ \A k \in (n + 1)..Len(data) :
                         data[k] = IF tl[i].params.tx_padding = None THEN 204
                                   ELSE tl[i].params.tx_padding]_vars

\* a last ConsecutiveFrame has been emitted with padding bytes after its payload
PaddedCF_C17 ==
    /\ step.op = "tx" /\ step.out # <<>>
    /\ PaddingEnabled(tl[step.who].params)
    /\ tl[step.who].params.tx_padding = 170
    /\ CanFrame(step.out[1], rx_prefix_size(tl[step.who].address)).type = CONSECUTIVE_FRAME
    /\ Len(step.out[1].data) = 8
    /\ step.out[1].data[8] = 170 /\ step.out[1].data[5] # 170
    /\ tl[step.who].tx_state = TxIDLE

\* C18: whenever RxState is IDLE after a frame addressed to the engine has been
\* processed, the state of the reception is cleared: rx_buffer is empty, the
\* CF timer is stopped and no FlowControl CTS is pending.
RxIdleCleared_C18 ==
    [][\A i \in Engines :
          (ProcessRx(i) /\ is_for_me(tl[i].address, Head(inbox[i]))
             /\ tl'[i].rx_state = RxIDLE) =>
              /\ tl'[i].rx_buffer = <<>>
              /\ ~tl'[i].timer_rx_cf.started
              /\ ~(tl'[i].pending_flow_control_tx
                     /\ tl'[i].flow_control_status = ContinueToSend)]_vars

\* the timers and counters of the transmission are cleared
TxTimersCleared(e) ==
    /\ ~e.timer_rx_fc.started /\ ~e.timer_tx_st_min.started
    /\ e.tx_block_counter = 0 /\ e.tx_seq_num = 0 /\ e.wft_counter = 0

\* C19 as written: whenever TxState is IDLE after a TX pump, tx_buffer is
\* empty, the FC timer and the STmin timer are stopped, and tx_block_counter,
\* tx_seq_num and wft_counter are 0.
TxIdleCleared_C19 ==
    [][\A i \in Engines :
          (ProcessTx(i) /\ tl'[i].tx_state = TxIDLE) =>
              /\ tl'[i].tx_buffer = <<>>
              /\ TxTimersCleared(tl'[i])]_vars

\* C19, corrected: whenever TxState is IDLE after a TX pump, the timers are
\* stopped and the counters are 0; tx_buffer is empty after the last
\* ConsecutiveFrame and after an abort, but after a SingleFrame it holds the
\* payload of that frame, until a later pump takes a message from the queue
\* or stops the transmission.
TxIdleSingle_C19 ==
    [][\A i \in Engines :
          (ProcessTx(i) /\ tl'[i].tx_state = TxIDLE) =>
              /\ TxTimersCleared(tl'[i])
              /\ \/ tl'[i].tx_buffer = <<>>
                 \/ /\ Emits(i) /\ ~tl[i].pending_flow_control_tx
                    /\ OutPdu(i).type = SINGLE_FRAME
                    /\ OutPdu(i).data = tl'[i].tx_buffer
                 \/ /\ tl[i].tx_state = TxIDLE
                    /\ tl'[i].tx_buffer = tl[i].tx_buffer
                    /\ \A k \in 1..Popped(i) : tl[i].tx_queue[k].data = <<>>
              /\ (tl[i].tx_state # TxIDLE /\ Popped(i) = 0) => tl'[i].tx_buffer = <<>>]_vars

\* the last ConsecutiveFrame of a message has been emitted and the
\* transmission state is cleared
LastCF_C19 ==
    /\ step.op = "tx" /\ step.tx_state = TxTRANSMIT_CF /\ step.out # <<>>
    /\ CanFrame(step.out[1], rx_prefix_size(tl[step.who].address)).type = CONSECUTIVE_FRAME
    /\ tl[step.who].tx_state = TxIDLE
    /\ tl[step.who].tx_buffer = <<>>
    /\ TxTimersCleared(tl[step.who])

\* a TX pump of i that has a FlowControl buffered while TxState is IDLE
StrayFlowControl(i) ==
    /\ ProcessTx(i)
    /\ tl[i].last_flow_control_frame # <<>>
    /\ tl[i].tx_state = TxIDLE

\* C20: no ConsecutiveFrame is emitted before a FlowControl CTS is consumed for
\* the message.  A pump that emits a FirstFrame ends in WAIT_FC; in WAIT_FC a
\* pump that consumes no CTS emits no frame of the message; TRANSMIT_CF is
\* entered only by a pump
\* that consumes a CTS in WAIT_FC, and a ConsecutiveFrame is emitted only by a
\* pump that starts in TRANSMIT_CF or enters it so.  A FlowControl buffered
\* while TxState is IDLE is consumed while TxState is still IDLE, by the first
\* pump that has no FlowControl of its own to emit, and dropped: that pump
\* does not enter TRANSMIT_CF and emits no ConsecutiveFrame, and no FlowControl
\* is left in the buffer when process() returns.
CtsGate_C20 ==
    [][\A i \in Engines :
          /\ (Emits(i) /\ ~tl[i].pending_flow_control_tx
                /\ OutPdu(i).type = FIRST_FRAME) => tl'[i].tx_state = TxWAIT_FC
          /\ (ProcessTx(i) /\ tl[i].tx_state = TxWAIT_FC
                /\ tl'[i].tx_state = TxWAIT_FC /\ Popped(i) = 0) =>
                \/ step'.out = <<>>
                \/ tl[i].pending_flow_control_tx
                \/ ConsumesFlowControl(i, ContinueToSend)
          /\ (tl'[i].tx_state = TxTRANSMIT_CF /\ tl[i].tx_state # TxTRANSMIT_CF) =>
                /\ ConsumesFlowControl(i, ContinueToSend)
                /\ tl[i].tx_state = TxWAIT_FC
                /\ ~is_timed_out(tl[i].timer_rx_fc)
          /\ (Emits(i) /\ ~tl[i].pending_flow_control_tx
                /\ OutPdu(i).type = CONSECUTIVE_FRAME) =>
                \/ tl[i].tx_state = TxTRANSMIT_CF
                \/ /\ tl[i].tx_state = TxWAIT_FC
                   /\ ConsumesFlowControl(i, ContinueToSend)
          /\ (~ProcessTx(i)) => tl'[i].tx_state = tl[i].tx_state
          /\ (StrayFlowControl(i) /\ tl[i].pending_flow_control_tx) =>
                /\ tl'[i].tx_state = TxIDLE
                /\ tl'[i].last_flow_control_frame = tl[i].last_flow_control_frame
                /\ pc'[i] = "tx"
          /\ (StrayFlowControl(i) /\ ~tl[i].pending_flow_control_tx) =>
                /\ tl'[i].last_flow_control_frame = <<>>
                /\ tl'[i].tx_state # TxTRANSMIT_CF
                /\ step'.out # <<>> => OutPdu(i).type # CONSECUTIVE_FRAME
                /\ tl[i].last_flow_control_frame[1].flow_status # Overflow =>
                      Reports(i, "UnexpectedFlowControlError")
          /\ pc'[i] = "idle" => tl'[i].last_flow_control_frame = <<>>]_vars

\* a CTS that arrived while TxState was IDLE has been dropped by the pump that
\* then emitted the FirstFrame of a queued message, which waits for its own
\* FlowControl
StrayDropped_C20 ==
    /\ step.op = "tx" /\ step.tx_state = TxIDLE /\ step.out # <<>>
    /\ CanFrame(step.out[1], rx_prefix_size(tl[step.who].address)).type = FIRST_FRAME
    /\ tl[step.who].errs = <<"UnexpectedFlowControlError">>
    /\ tl[step.who].tx_state = TxWAIT_FC
    /\ tl[step.who].last_flow_control_frame = <<>>

\* this pump consumes a CTS that is taken into account
AcceptsCTS(i) ==
    ConsumesFlowControl(i, ContinueToSend) /\ ~is_timed_out(tl[i].timer_rx_fc)

\* the block size in force when this pump reaches the state machine: that of
\* the CTS it consumes, else the one recorded from the last CTS
BlockSizeInForce(i) ==
    IF AcceptsCTS(i) THEN tl[i].last_flow_control_frame[1].block_size
    ELSE tl[i].remote_block_size

\* the block counter when this pump reaches the state machine: 0 if the pump
\* consumes a CTS in WAIT_FC
BlockCounterInForce(i) ==
    IF AcceptsCTS(i) /\ tl[i].tx_state = TxWAIT_FC THEN 0 ELSE tl[i].tx_block_counter

\* a pump of i that emits a ConsecutiveFrame
EmitsCF(i) ==
    Emits(i) /\ ~tl[i].pending_flow_control_tx /\ OutPdu(i).type = CONSECUTIVE_FRAME

\* the block is not exhausted: ConsecutiveFrames may go on
BlockOpen(e) ==
    /\ e.remote_block_size # None
    /\ e.remote_block_size = 0 \/ e.tx_block_counter < e.remote_block_size

\* C21: with the block size n > 0 of the last consumed CTS the sender emits at
\* most n ConsecutiveFrames after that CTS.  tx_block_counter, set to 0 by a
\* CTS consumed in WAIT_FC and incremented by every ConsecutiveFrame, counts at
\* least the frames emitted since the last CTS; TxState is TRANSMIT_CF only
\* while the counter is below n (or n = 0); the ConsecutiveFrame that brings the
\* counter to n with data left moves to WAIT_FC and starts the FC timer; no
\* ConsecutiveFrame is emitted from WAIT_FC unless the pump consumes a CTS.
\* With n = 0 TxState leaves TRANSMIT_CF for WAIT_FC only through a Wait frame.
BlockSize_C21 ==
    [][\A i \in Engines :
          /\ tl'[i].tx_state = TxTRANSMIT_CF => BlockOpen(tl'[i])
          /\ (AcceptsCTS(i) /\ tl'[i].tx_state # TxIDLE) =>
                tl'[i].remote_block_size = tl[i].last_flow_control_frame[1].block_size
          /\ EmitsCF(i) =>
                /\ tl[i].tx_state = TxTRANSMIT_CF \/ AcceptsCTS(i)
                /\ tl'[i].tx_state # TxIDLE =>
                      /\ tl'[i].tx_block_counter = BlockCounterInForce(i) + 1
                      /\ tl'[i].tx_buffer # <<>>
                      /\ IF BlockSizeInForce(i) > 0
                            /\ tl'[i].tx_block_counter >= BlockSizeInForce(i)
                         THEN /\ tl'[i].tx_state = TxWAIT_FC
                              /\ tl'[i].timer_rx_fc.started
                              /\ ~tl'[i].timer_rx_fc.expired
                         ELSE tl'[i].tx_state = TxTRANSMIT_CF
          /\ (ProcessTx(i) /\ tl[i].tx_state = TxTRANSMIT_CF
                /\ tl'[i].tx_state = TxWAIT_FC) =>
                \/ ConsumesFlowControl(i, Wait)
                \/ /\ BlockSizeInForce(i) > 0
                   /\ tl'[i].tx_block_counter >= BlockSizeInForce(i)]_vars

\* a block of two ConsecutiveFrames has been emitted with data left: the
\* sender waits for the next FlowControl
BlockExhausted_C21 ==
    /\ step.op = "tx" /\ step.tx_state = TxTRANSMIT_CF /\ step.out # <<>>
    /\ tl[step.who].remote_block_size = 2
    /\ tl[step.who].tx_block_counter = 2
    /\ tl[step.who].tx_state = TxWAIT_FC
    /\ tl[step.who].timer_rx_fc.started
    /\ tl[step.who].tx_buffer # <<>>

\* the STmin timer as the state machine of this pump finds it: a CTS consumed
\* in WAIT_FC sets its timeout and starts it, a CTS consumed in TRANSMIT_CF
\* sets its timeout
StMinTimerInForce(i) ==
    IF AcceptsCTS(i)
    THEN LET t == timer_set_timeout(tl[i].timer_tx_st_min,
                                    tl[i].last_flow_control_frame[1].st_min_sec)
         IN  IF tl[i].tx_state = TxWAIT_FC THEN timer_start(t) ELSE t
    ELSE tl[i].timer_tx_st_min

\* C22: a ConsecutiveFrame is emitted only by a pump that finds the STmin timer
\* fired, or with squash_st_min_requirement, and the emission restarts the
\* timer.  A started timer with timeout 0 counts as fired, so with STmin 0
\* every pump in TRANSMIT_CF emits a frame and process() does not return while
\* TxState is TRANSMIT_CF; with STmin > 0 and no squash the restarted timer has
\* to expire again before the next frame.
StMinGate_C22 ==
    [][\A i \in Engines :
          /\ EmitsCF(i) =>
                /\ \/ tl[i].params.squash_st_min_requirement
                   \/ is_timed_out(StMinTimerInForce(i))
                /\ tl'[i].tx_state # TxIDLE =>
                      /\ tl'[i].timer_tx_st_min.started
                      /\ ~tl'[i].timer_tx_st_min.expired
                      /\ tl'[i].timer_tx_st_min.timeout = StMinTimerInForce(i).timeout
          /\ (ProcessTx(i) /\ ~tl[i].pending_flow_control_tx
                /\ tl'[i].tx_state = TxTRANSMIT_CF) =>
                IF \/ tl[i].params.squash_st_min_requirement
                   \/ is_timed_out(StMinTimerInForce(i))
                THEN EmitsCF(i) /\ pc'[i] = "tx"
                ELSE step'.out = <<>> /\ tl'[i].tx_buffer = tl[i].tx_buffer
          /\ (pc'[i] = "idle" /\ tl'[i].tx_state = TxTRANSMIT_CF) =>
                /\ tl'[i].timer_tx_st_min.timeout > 0
                /\ tl'[i].timer_tx_st_min.started]_vars

\* with STmin 10 ms a ConsecutiveFrame has been emitted after the timer had
\* expired, and more frames are to follow after the restarted timer
Paced_C22 ==
    /\ step.op = "tx" /\ step.tx_state = TxTRANSMIT_CF /\ step.out # <<>>
    /\ CanFrame(step.out[1], rx_prefix_size(tl[step.who].address)).type = CONSECUTIVE_FRAME
    /\ tl[step.who].timer_tx_st_min.timeout > 0
    /\ tl[step.who].timer_tx_st_min.started /\ ~tl[step.who].timer_tx_st_min.expired
    /\ tl[step.who].tx_buffer # <<>>

\* a SingleFrame addressed to i that passes the decoder and the escape
\* sequence check is processed
AcceptedSingle(i) ==
    /\ RxStep(i)
    /\ RxPdu(i).type = SINGLE_FRAME
    /\ ~(RxPdu(i).can_dl > 8 /\ ~RxPdu(i).escape_sequence)

\* C23: a SingleFrame accepted in WAIT_CF is delivered to the RX queue, ends the
\* reception in progress (RxState IDLE, nothing else published) and is
\* reported as ReceptionInterruptedWithSingleFrame; a SingleFrame accepted in
\* IDLE is delivered with no error and RxState stays IDLE.
Interrupted_C23 ==
    [][\A i \in Engines :
          AcceptedSingle(i) =>
              /\ tl'[i].rx_queue = Append(tl[i].rx_queue, RxPdu(i).data)
              /\ tl'[i].rx_state = RxIDLE
              /\ tl'[i].errs = IF tl[i].rx_state = RxWAIT_CF
                               THEN <<"ReceptionInterruptedWithSingleFrameError">>
                               ELSE <<>>]_vars

\* a FirstFrame with a legal RX_DL and a length within max_frame_size is
\* processed while a reception is in progress
ValidFirstFrameInWaitCF(i) ==
    /\ RxStep(i)
    /\ tl[i].rx_state = RxWAIT_CF
    /\ RxPdu(i).type = FIRST_FRAME
    /\ RxPdu(i).rx_dl \in {8, 12, 16, 20, 24, 32, 48, 64}
    /\ RxPdu(i).length <= tl[i].params.max_frame_size

\* the reception of i has been restarted from the FirstFrame being processed
Restarted(i) ==
    /\ tl'[i].rx_state = RxWAIT_CF
    /\ tl'[i].rx_buffer = RxPdu(i).data
    /\ tl'[i].rx_frame_length = RxPdu(i).length
    /\ tl'[i].last_seq_num = 0
    /\ tl'[i].rx_block_counter = 0
    /\ tl'[i].pending_flow_control_tx
    /\ tl'[i].flow_control_status = ContinueToSend
    /\ tl'[i].rx_queue = tl[i].rx_queue

\* q is the payload of one transfer of the peer: the bytes of one FirstFrame
\* followed by bytes of ConsecutiveFrames, as many as the FirstFrame announced
OneTransfer(q) ==
    \E f \in RxFrames :
        LET ff == CanFrame(f, 0) IN
        /\ ff.type = FIRST_FRAME
        /\ Len(q) = ff.length
        /\ SliceTo(q, Len(ff.data)) = ff.data
        /\ \A x \in (Len(ff.data) + 1)..Len(q) :
              \E c \in RxFrames :
                  /\ CanFrame(c, 0).type = CONSECUTIVE_FRAME
                  /\ \E y \in 1..Len(CanFrame(c, 0).data) : CanFrame(c, 0).data[y] = q[x]

\* every payload in the reception queue of i is a SingleFrame's or one transfer's
PublishedWhole(i) ==
    \A k \in 1..Len(tl'[i].rx_queue) :
        \/ tl'[i].rx_queue[k] = CanFrame(Single_2, 0).data
        \/ OneTransfer(tl'[i].rx_queue[k])

\* C24: a valid FirstFrame processed in WAIT_CF restarts the reception from the
\* new frame (buffer, rx_frame_length, last_seq_num = 0, rx_block_counter = 0,
\* FlowControl ContinueToSend requested), is reported as
\* ReceptionInterruptedWithFirstFrame, and every payload published consists of
\* the bytes of one transfer.
Restart_C24 ==
    [][\A i \in Engines :
          /\ ValidFirstFrameInWaitCF(i) =>
                /\ Restarted(i)
                /\ tl'[i].errs = <<"ReceptionInterruptedWithFirstFrameError">>
          /\ PublishedWhole(i)]_vars

\* C24, corrected: the report is ReceptionInterruptedWithFirstFrame when the CF
\* timer has not expired; when it has, the interrupted reception is stopped and
\* reported as ConsecutiveFrameTimeout, and the FirstFrame starts the new
\* reception from IDLE.  The state after the frame is the same in both cases.
RestartTimer_C24 ==
    [][\A i \in Engines :
          /\ ValidFirstFrameInWaitCF(i) =>
                /\ Restarted(i)
                /\ tl'[i].errs = IF is_timed_out(tl[i].timer_rx_cf)
                                 THEN <<"ConsecutiveFrameTimeoutError">>
                                 ELSE <<"ReceptionInterruptedWithFirstFrameError">>
          /\ PublishedWhole(i)]_vars

\* the FirstFrame of the 9-byte transfer has interrupted the 22-byte transfer
\* before the CF timer expired
Interrupted_C24 ==
    /\ step.op = "rx" /\ step.rx_state = RxWAIT_CF
    /\ step.msg = <<FF_9>>
    /\ tl[step.who].errs = <<"ReceptionInterruptedWithFirstFrameError">>
    /\ tl[step.who].rx_state = RxWAIT_CF
    /\ tl[step.who].rx_buffer = Payload(51, 6)
    /\ tl[step.who].rx_frame_length = 9

\* a frame addressed to i is processed when the CF timer has fired
TimedOutAtFrame(i) ==
    /\ ProcessRx(i)
    /\ is_for_me(tl[i].address, Head(inbox[i]))
    /\ is_timed_out(tl[i].timer_rx_cf)

\* the transfer that timed out is gone when the frame has been processed: its
\* bytes are in no buffer and in no published payload, and a ConsecutiveFrame
\* is refused as unexpected
TimedOutTransferDropped(i) ==
    /\ \/ tl'[i].rx_buffer = <<>> /\ tl'[i].rx_state = RxIDLE
       \/ /\ RxPdu(i).ok /\ RxPdu(i).type = FIRST_FRAME
          /\ tl'[i].rx_buffer = RxPdu(i).data /\ tl'[i].rx_state = RxWAIT_CF
    /\ \/ tl'[i].rx_queue = tl[i].rx_queue
       \/ /\ RxPdu(i).ok /\ RxPdu(i).type = SINGLE_FRAME
          /\ tl'[i].rx_queue = Append(tl[i].rx_queue, RxPdu(i).data)
    /\ (RxPdu(i).ok /\ RxPdu(i).type = CONSECUTIVE_FRAME) =>
          /\ tl'[i].errs = <<"ConsecutiveFrameTimeoutError",
                             "UnexpectedConsecutiveFrameError">>
          /\ ReceptionDropped(i)

\* C25 as written: every frame addressed to the engine that is processed when
\* the CF timer has fired is reported as ConsecutiveFrameTimeout first, the
\* reception is stopped before the frame is interpreted, a ConsecutiveFrame is
\* not appended and nothing of the timed-out transfer is published.
Timeout_C25 ==
    [][\A i \in Engines :
          /\ TimedOutAtFrame(i) =>
                /\ tl'[i].errs # <<>>
                /\ tl'[i].errs[1] = "ConsecutiveFrameTimeoutError"
                /\ TimedOutTransferDropped(i)
          /\ LateCF(i)]_vars

\* C25, corrected: the report is ConsecutiveFrameTimeout for a frame that
\* decodes; a frame that does not decode is reported as InvalidCanData only.
\* In both cases the reception is stopped, a ConsecutiveFrame is not appended
\* and nothing of the timed-out transfer is published.
TimeoutDecoded_C25 ==
    [][\A i \in Engines :
          /\ TimedOutAtFrame(i) =>
                /\ IF RxPdu(i).ok
                   THEN tl'[i].errs # <<>>
                        /\ tl'[i].errs[1] = "ConsecutiveFrameTimeoutError"
                   ELSE tl'[i].errs = <<"InvalidCanDataError">>
                /\ TimedOutTransferDropped(i)
          /\ LateCF(i)]_vars

\* the ConsecutiveFrame with the expected number has arrived after the timeout
\* of a transfer with data in the buffer, and has been refused
LateFrame_C25 ==
    /\ step.op = "rx" /\ step.rx_state = RxWAIT_CF
    /\ step.msg = <<CF_2>>
    /\ tl[step.who].errs = <<"ConsecutiveFrameTimeoutError",
                             "UnexpectedConsecutiveFrameError">>
    /\ tl[step.who].rx_state = RxIDLE
    /\ tl[step.who].rx_buffer = <<>>
    /\ tl[step.who].rx_queue = <<>>
    /\ tl[step.who].last_seq_num = 1

\* the ConsecutiveFrame being processed in WAIT_CF has the expected number and
\* an RX_DL that differs from the FirstFrame's and is smaller than what remains
ChangedRxDl(i) ==
    /\ CFInWaitCF(i)
    /\ ~WrongNumber(i)
    /\ RxPdu(i).rx_dl # tl[i].actual_rx_dl
    /\ RxPdu(i).rx_dl < tl[i].rx_frame_length - Len(tl[i].rx_buffer)

\* the frame is dropped with ChangingInvalidRXDL and nothing else changes
DroppedUnchanged(i) == tl'[i] = [tl[i] EXCEPT !.errs = <<"ChangingInvalidRXDLError">>]

\* C26 as written: a ConsecutiveFrame with the expected number and a changed,
\* too small RX_DL is dropped with ChangingInvalidRXDL, nothing of the reception
\* changes (rx_buffer, last_seq_num, rx_block_counter, RxState, CF timer), and
\* a ConsecutiveFrame with the expected number and no such RX_DL is accepted.
RxDl_C26 ==
    [][\A i \in Engines :
          /\ ChangedRxDl(i) => DroppedUnchanged(i)
          /\ (CFInWaitCF(i) /\ ~WrongNumber(i) /\ ~ChangedRxDl(i)
                /\ ~is_timed_out(tl[i].timer_rx_cf)) => AcceptsCF(i)]_vars

\* C26, corrected: so it is when the CF timer has not expired; when it has, the
\* reception is stopped and the frame is reported as ConsecutiveFrameTimeout
\* and UnexpectedConsecutiveFrame.
RxDlTimer_C26 ==
    [][\A i \in Engines :
          /\ ChangedRxDl(i) =>
                IF is_timed_out(tl[i].timer_rx_cf)
                THEN /\ tl'[i].errs = <<"ConsecutiveFrameTimeoutError",
                                        "UnexpectedConsecutiveFrameError">>
                     /\ ReceptionDropped(i)
                ELSE DroppedUnchanged(i)
          /\ (CFInWaitCF(i) /\ ~WrongNumber(i) /\ ~ChangedRxDl(i)
                /\ ~is_timed_out(tl[i].timer_rx_cf)) => AcceptsCF(i)]_vars

\* the 8-byte ConsecutiveFrame 1 has been dropped in a reception of 12-byte
\* frames, which goes on
NarrowDropped_C26 ==
    /\ step.op = "rx" /\ step.rx_state = RxWAIT_CF
    /\ step.msg = <<NarrowCF_1>>
    /\ tl[step.who].errs = <<"ChangingInvalidRXDLError">>
    /\ tl[step.who].rx_state = RxWAIT_CF
    /\ tl[step.who].rx_buffer = Payload(101, 10)
    /\ tl[step.who].last_seq_num = 0
    /\ tl[step.who].actual_rx_dl = 12
    /\ tl[step.who].timer_rx_cf.started

\* a TX pump of i consumes a FlowControl Wait or ContinueToSend while TxState is IDLE
ConsumedInIdle(i) ==
    /\ StrayFlowControl(i)
    /\ ~tl[i].pending_flow_control_tx
    /\ tl[i].last_flow_control_frame[1].flow_status \in {Wait, ContinueToSend}

\* what the same pump does when no FlowControl is buffered
WithoutFlowControl(i) ==
    process_tx([tl[i] EXCEPT !.errs = <<>>, !.last_flow_control_frame = <<>>])

\* the transmission state of i is what it was
TxUnchanged(i) ==
    /\ tl'[i].tx_state = tl[i].tx_state
    /\ tl'[i].tx_buffer = tl[i].tx_buffer
    /\ tl'[i].tx_frame_length = tl[i].tx_frame_length
    /\ tl'[i].remote_block_size = tl[i].remote_block_size
    /\ tl'[i].tx_block_counter = tl[i].tx_block_counter
    /\ tl'[i].tx_seq_num = tl[i].tx_seq_num
    /\ tl'[i].wft_counter = tl[i].wft_counter
    /\ tl'[i].timer_rx_fc = tl[i].timer_rx_fc
    /\ tl'[i].timer_tx_st_min = tl[i].timer_tx_st_min

\* C27: a FlowControl Wait or ContinueToSend consumed by the TX pump while
\* TxState is IDLE is reported as UnexpectedFlowControl and ignored: the pump
\* ends as it would have ended with no FlowControl buffered (with an empty
\* TX queue TxState, tx_buffer, remote_block_size, the counters and the TX
\* timers are what they were, and a message that is started is started as if
\* the frame had not arrived), and the frame is not kept.
Ignored_C27 ==
    [][\A i \in Engines :
          ConsumedInIdle(i) =>
              /\ tl'[i].errs # <<>>
              /\ tl'[i].errs[1] = "UnexpectedFlowControlError"
              /\ tl'[i] = [WithoutFlowControl(i).e EXCEPT
                              !.errs = <<"UnexpectedFlowControlError">> \o @]
              /\ step'.out = WithoutFlowControl(i).out
              /\ tl'[i].last_flow_control_frame = <<>>
              /\ tl[i].tx_queue = <<>> => TxUnchanged(i) /\ step'.out = <<>>]_vars

\* a FlowControl has been consumed and ignored in IDLE after a transmission, with
\* nothing to send: the values of the last transmission are untouched
IgnoredIdle_C27 ==
    /\ step.op = "tx" /\ step.tx_state = TxIDLE /\ step.out = <<>>
    /\ tl[step.who].errs = <<"UnexpectedFlowControlError">>
    /\ tl[step.who].tx_state = TxIDLE
    /\ tl[step.who].tx_queue = <<>>
    /\ tl[step.who].last_flow_control_frame = <<>>
    /\ Len(env.sent) >= 1

\* a frame addressed to i that does not decode into a PDU is processed
Undecodable(i) ==
    /\ ProcessRx(i)
    /\ is_for_me(tl[i].address, Head(inbox[i]))
    /\ ~RxPdu(i).ok

\* C28: a frame addressed to the engine that fails PDU decoding is reported as
\* InvalidCanData and leaves the reception in IDLE with an empty buffer; the
\* transmission is untouched: TxState, tx_buffer, the TX timers and the
\* buffered inbound FlowControl are what they were.
Undecodable_C28 ==
    [][\A i \in Engines :
          Undecodable(i) =>
              /\ tl'[i].errs = <<"InvalidCanDataError">>
              /\ tl'[i].rx_state = RxIDLE
              /\ tl'[i].rx_buffer = <<>>
              /\ tl'[i].rx_queue = tl[i].rx_queue
              /\ TxUnchanged(i)
              /\ tl'[i].tx_queue = tl[i].tx_queue
              /\ tl'[i].last_flow_control_frame = tl[i].last_flow_control_frame]_vars

\* the identifiers that the TX encoding, the prefix and the acceptance
\* predicate of the addressing mode of a read
IdentifiersRead(a) ==
    CASE a.addressing_mode \in {Normal_11bits, Normal_29bits} ->
            {a.tx_id, a.rx_id}
      [] a.addressing_mode = NormalFixed_29bits ->
            {a.target_address, a.source_address}
      [] a.addressing_mode \in {Extended_11bits, Extended_29bits} ->
            {a.tx_id, a.rx_id, a.target_address, a.source_address}
      [] a.addressing_mode = Mixed_11bits ->
            {a.tx_id, a.rx_id, a.address_extension}
      [] a.addressing_mode = Mixed_29bits ->
            {a.target_address, a.source_address, a.address_extension}

\* C29: every Address that has been constructed has all the identifiers its
\* variant reads: tx_id and rx_id for Normal, target_address and source_address
\* for NormalFixed and Mixed_29bits, the prefix byte and the byte compared with
\* data[0] for Extended and Mixed; no acceptance predicate compares a frame
\* byte with an identifier that is absent.
Identifiers_C29 == \A i \in Engines : None \notin IdentifiersRead(tl[i].address)

\* the Single and First frames that i has handed to txfn, decoded, in order
StartPdus(i) ==
    SelectSeq(DataPdus(wire[i], rx_prefix_size(tl[i].address)),
              LAMBDA f : f.type \in {SINGLE_FRAME, FIRST_FRAME})

\* the non-empty messages accepted by send() that are no longer in the TX queue
\* of i, in the order of the send() calls
RemovedMessages(i) ==
    SelectSeq(SubSeq(env.sent, 1, Len(env.sent) - Len(tl[i].tx_queue)),
              LAMBDA d : d # <<>>)

\* C30: no accepted message is lost by the TX pump.  The Single and First
\* frames handed to txfn are those of the non-empty messages removed from the
\* TX queue, one frame for each message, in the order of the send() calls.
NoLoss_C30 ==
    \A i \in Engines :
        /\ Len(StartPdus(i)) = Len(RemovedMessages(i))
        /\ \A k \in 1..Min(Len(StartPdus(i)), Len(RemovedMessages(i))) :
              /\ StartPdus(i)[k].length = Len(RemovedMessages(i)[k])
              /\ StartPdus(i)[k].data =
                    SliceTo(RemovedMessages(i)[k], Len(StartPdus(i)[k].data))

\* the reassembly buffer of i joined with the data of the ConsecutiveFrame being
\* processed, cut to the length declared by the FirstFrame
Joined(i) ==
    tl[i].rx_buffer \o SliceTo(RxPdu(i).data, tl[i].rx_frame_length - Len(tl[i].rx_buffer))

\* C31: reassembly.  A FirstFrame that starts a reception leaves its data, cut
\* to the declared length, in the buffer; an accepted ConsecutiveFrame joins
\* its data to the buffer in arrival order, cut to the declared length, and
\* when the declared length is reached that payload, of exactly that length,
\* is published; every other step leaves the buffer of a reception in
\* progress alone.  In WAIT_CF len(rx_buffer) <= rx_frame_length.  Every
\* published multi-frame payload is the data of one FirstFrame followed by
\* ConsecutiveFrame data, as long as that FirstFrame declared.  Payloads are
\* queued at the tail and receive() returns the head.
Reassembly_C31 ==
    [][\A i \in Engines :
          /\ (RxStep(i) /\ RxPdu(i).type = FIRST_FRAME
                /\ tl'[i].rx_state = RxWAIT_CF) =>
                /\ tl'[i].rx_buffer = SliceTo(RxPdu(i).data, RxPdu(i).length)
                /\ tl'[i].rx_frame_length = RxPdu(i).length
                /\ tl'[i].rx_queue = tl[i].rx_queue
          /\ AcceptsCF(i) =>
                IF Len(Joined(i)) >= tl[i].rx_frame_length
                THEN /\ tl'[i].rx_queue = Append(tl[i].rx_queue, Joined(i))
                     /\ Len(Joined(i)) = tl[i].rx_frame_length
                     /\ tl'[i].rx_state = RxIDLE
                ELSE /\ tl'[i].rx_buffer = Joined(i)
                     /\ tl'[i].rx_queue = tl[i].rx_queue
                     /\ tl'[i].rx_frame_length = tl[i].rx_frame_length
                     /\ tl'[i].rx_state = RxWAIT_CF
          /\ (tl[i].rx_state = RxWAIT_CF /\ tl'[i].rx_state = RxWAIT_CF
                /\ ~AcceptsCF(i) /\ ~(RxStep(i) /\ RxPdu(i).type = FIRST_FRAME)) =>
                /\ tl'[i].rx_buffer = tl[i].rx_buffer
                /\ tl'[i].rx_frame_length = tl[i].rx_frame_length
          /\ tl'[i].rx_state = RxWAIT_CF => Len(tl'[i].rx_buffer) <= tl'[i].rx_frame_length
          /\ PublishedWhole(i)
          /\ IF Receive(i)
             THEN /\ rcvd'[i] = Append(rcvd[i], Head(tl[i].rx_queue))
                  /\ tl'[i].rx_queue = Tail(tl[i].rx_queue)
             ELSE /\ rcvd'[i] = rcvd[i]
                  /\ \/ tl'[i].rx_queue = tl[i].rx_queue
                     \/ /\ RxStep(i)
                        /\ Len(tl'[i].rx_queue) = Len(tl[i].rx_queue) + 1
                        /\ SliceTo(tl'[i].rx_queue, Len(tl[i].rx_queue)) = tl[i].rx_queue]_vars

\* the 9-byte transfer has been published: the 7 data bytes of its
\* ConsecutiveFrame were cut to the 3 that the FirstFrame still announced
Truncated_C31 ==
    /\ step.op = "rx" /\ step.rx_state = RxWAIT_CF
    /\ step.msg = <<CF_1>>
    /\ tl[step.who].rx_state = RxIDLE
    /\ tl[step.who].rx_queue # <<>>
    /\ tl[step.who].rx_queue[Len(tl[step.who].rx_queue)] = Payload(51, 6) \o Payload(107, 3)

\* the other engine of the link
Peer(i) == IF i = "A" THEN "B" ELSE "A"

\* both messages have been sent and nothing is left to do: every frame has been
\* delivered and processed, and no engine has a frame or a FlowControl to emit
Settled ==
    /\ Len(env.sent) = 2
    /\ \A i \in Engines :
          /\ pc[i] = "idle"
          /\ inbox[i] = <<>>
          /\ delivered[i] = Len(wire[i])
          /\ tl[i].tx_queue = <<>> /\ tl[i].rx_queue = <<>>
          /\ ~tl[i].pending_flow_control_tx
          /\ tl[i].last_flow_control_frame = <<>>
          /\ ~(tl[i].tx_state = TxTRANSMIT_CF)

\* C32: full duplex.  A reception step of an engine that is transmitting never
\* discards the FlowControl buffered for the TX pump: after the step the buffer
\* holds that FlowControl, or the one just received.  When both messages have
\* been sent and nothing is left to do, both transmissions are over and each
\* engine has received the message of the other.
Duplex_C32 ==
    [][\A i \in Engines :
          /\ (ProcessRx(i) /\ tl[i].tx_state # TxIDLE
                /\ tl[i].last_flow_control_frame # <<>>) =>
                tl'[i].last_flow_control_frame # <<>>
          /\ Settled' =>
                /\ tl'[i].tx_state = TxIDLE
                /\ rcvd'[i] = <<DuplexPayload(Peer(i))>>]_vars

\* a ContinueToSend frame from the peer is waiting in rxfn or in the engine
ContinueToSendAround(i) ==
    \/ \E k \in 1..Len(inbox[i]) :
           LET pdu == CanFrame(inbox[i][k], rx_prefix_size(tl[i].address))
           IN  pdu.type = FLOW_CONTROL /\ pdu.flow_status = ContinueToSend
    \/ /\ tl[i].last_flow_control_frame # <<>>
       /\ tl[i].last_flow_control_frame[1].flow_status = ContinueToSend

\* C33 as stated: under fair scheduling of process() and of the timers, a
\* transmission in progress always comes back to TxState IDLE, whatever the peer sends
AlwaysTerminates_C33 == (tl["A"].tx_state # TxIDLE) ~> (tl["A"].tx_state = TxIDLE)

\* what does hold of C33: a transmission in progress comes back to TxState IDLE
\* unless the peer sends ContinueToSend frames for ever; a silent peer, a peer
\* that sends only Wait frames and wft_max = 0 all end in IDLE
Terminates_C33 ==
    ([]<>ContinueToSendAround("A"))
        \/ ((tl["A"].tx_state # TxIDLE) ~> (tl["A"].tx_state = TxIDLE))

\* with wft_max = 0 a transmission waiting for FlowControl was ended by the
\* FlowControl timer
AbortedByTimeout_C33 ==
    /\ tl["A"].params.wft_max = 0
    /\ step.op = "tx" /\ step.tx_state = TxWAIT_FC
    /\ tl["A"].errs = <<"FlowControlTimeoutError">>
    /\ tl["A"].tx_state = TxIDLE
    /\ tl["A"].timer_rx_fc.started = FALSE

\* C34: under fair scheduling of process() and of the ConsecutiveFrame timer, a
\* reception that the peer abandons after its FirstFrame is ended by the
\* timer: RxState WAIT_CF leads to RxState IDLE
ReceptionTerminates_C34 == (tl["A"].rx_state = RxWAIT_CF) ~> (tl["A"].rx_state = RxIDLE)

\* ConsecutiveFrameTimeout is reported by a step that found the engine outside a reception
TimeoutOutsideReception(i) ==
    ProcessRx(i) /\ Reports(i, "ConsecutiveFrameTimeoutError") /\ tl[i].rx_state # RxWAIT_CF

\* C35: ConsecutiveFrameTimeout is reported only by a step that found RxState
\* WAIT_CF, and the ConsecutiveFrame timer is never running while RxState is IDLE
TimeoutInProgress_C35 ==
    [][\A i \in Engines :
          /\ ~TimeoutOutsideReception(i)
          /\ tl'[i].rx_state = RxIDLE => ~tl'[i].timer_rx_cf.started]_vars

\* C36: every SingleFrame the engine emits passes the SingleFrame check of the
\* receiving engine: a frame of more than 8 data bytes (prefix, header, payload
\* and padding) carries the escape sequence
SingleAccepted_C36 ==
    [][\A i \in Engines :
          (Emits(i) /\ OutPdu(i).type = SINGLE_FRAME) =>
              (OutPdu(i).can_dl > 8 => OutPdu(i).escape_sequence)]_vars

\* C37: every FlowControl frame the engine emits, with any st_min and block_size
\* that Params.validate accepts, is decoded without error by a receiving engine:
\* its STmin byte is in 0x00..0x7F or 0xF1..0xF9
FlowControlDecodable_C37 ==
    [][\A i \in Engines :
          (Emits(i) /\ OutPdu(i).type = FLOW_CONTROL) =>
              /\ OutPdu(i).ok
              /\ step'.out[1].data[3] \in (0..127) \cup (241..249)]_vars

\* the frame at the head of rxfn is one that txfn of the same engine wrote
OwnFrame(i) ==
    \E k \in 1..delivered[i] :
        /\ wire[i][k] = Head(inbox[i])
        /\ wire[i][k].arbitration_id \in {get_tx_arbitration_id(tl[i].address, Physical),
                                           get_tx_arbitration_id(tl[i].address, Functional)}
        /\ wire[i][k].is_extended_id = is_29bits(tl[i].address)
        /\ SliceTo(wire[i][k].data, Len(tx_payload_prefix(tl[i].address)))
             = tx_payload_prefix(tl[i].address)

\* C38: on every Address that can be constructed, a frame the engine built with
\* its own TX arbitration id, is_29bits flag and TX payload prefix is rejected by
\* the acceptance predicate of the same Address
OwnFrameRejected_C38 ==
    [][\A i \in Engines :
          (ProcessRx(i) /\ OwnFrame(i)) => ~is_for_me(tl[i].address, Head(inbox[i]))]_vars

\* C39: every frame handed to txfn has between 2 and tx_data_length data bytes
\* and a DLC that get_dlc derives from that length, and every frame the pump has
\* to build is built: FlowControl when one is pending, and a data frame when
\* the pump takes bytes out of the queue or the buffer without an error
FrameSize_C39 ==
    [][\A i \in Engines :
          /\ Emits(i) =>
                /\ Len(step'.out[1].data) \in 2..tl[i].params.tx_data_length
                /\ step'.out[1].dlc # None
                /\ step'.out[1].dlc = get_dlc(tl[i].params, step'.out[1].data, TRUE)
          /\ (ProcessTx(i) /\ tl[i].pending_flow_control_tx) => Emits(i)
          /\ (ProcessTx(i) /\ ~tl[i].pending_flow_control_tx /\ tl'[i].errs = <<>>
                /\ (NonEmptyRemoved(i) >= 1 \/ tl'[i].tx_buffer # tl[i].tx_buffer)) =>
                Emits(i)]_vars

\* the last ConsecutiveFrame of a message carried one byte: a frame of 2 bytes
ShortestFrame_C39 ==
    /\ step.op = "tx" /\ step.out # <<>>
    /\ Len(step.out[1].data) = 2
    /\ step.out[1].dlc = 2
    /\ CanFrame(step.out[1], 0).type = CONSECUTIVE_FRAME
    /\ tl[step.who].tx_state = TxIDLE

\* C40: the can_comm copy and the vector_can copy, given the same parameters,
\* send() calls and inbound frames, have handed the same frames to txfn, have
\* published the same payloads and are in the same RxState and TxState whenever
\* both have returned from process()
Equivalent_C40 ==
    (pc["A"] = "idle" /\ pc["V"] = "idle") =>
        /\ wire["A"] = wire["V"]
        /\ tl["A"].rx_queue = tl["V"].rx_queue
        /\ tl["A"].rx_state = tl["V"].rx_state
        /\ tl["A"].tx_state = tl["V"].tx_state
====
